---- MODULE Spec2Model ----
(***************************************************************************)
(* Matrix store and elementwise engine of NN-Activation-Functions.         *)
(*                                                                         *)
(* The heap is modelled block by block: a Matrix structure, its array of   *)
(* row pointers and one buffer per row are separate allocations, exactly   *)
(* as create_matrix requests them.  Every engine function is an operator   *)
(* that threads a machine state `st' through the statements of its         *)
(* pseudocode; an action of the caller runs one whole call.                *)
(*                                                                         *)
(* Doubles are exact rationals <<n, d>> (d > 0, lowest terms); <<0, 0>> is *)
(* an uninitialised double.  exp is the library's; it is stood in for by   *)
(* the base-2 exponential on the integer grid, which keeps exp(0) = 1,     *)
(* positivity and strict monotonicity.                                     *)
(***************************************************************************)
EXTENDS Integers, Sequences, FiniteSets, TLC

(* ---------------------------- bounds ----------------------------------- *)
MaxDim == 2          \* largest rows / cols the caller asks for
MaxVal == 1          \* magnitude of the non-zero values the caller stores
MaxWrites == 2       \* number of element stores the caller performs

Dims == 1..MaxDim
AskDims == (-1)..MaxDim
Vals == {-MaxVal, 0, MaxVal}
Slots == {"A", "B"}

(* --------------------------- constants --------------------------------- *)
NULL == 0
UNINIT == -1                      \* indeterminate pointer in a fresh block
IntMax == 2147483647
NoVal == <<0, 0>>                 \* indeterminate double in a fresh block

(* ---------------------------- rationals -------------------------------- *)
Abs(n) == IF n < 0 THEN -n ELSE n

RECURSIVE Gcd(_, _)
Gcd(a, b) == IF b = 0 THEN a ELSE Gcd(b, a % b)

Norm(n, d) ==
    LET s == IF d < 0 THEN -1 ELSE 1
        g == Gcd(Abs(n), Abs(d))
    IN IF d = 0 THEN NoVal ELSE <<(s * n) \div g, (s * d) \div g>>

Rat(n) == <<n, 1>>
RAdd(x, y) == Norm(x[1] * y[2] + y[1] * x[2], x[2] * y[2])
RSub(x, y) == Norm(x[1] * y[2] - y[1] * x[2], x[2] * y[2])
RMul(x, y) == Norm(x[1] * y[1], x[2] * y[2])
RDiv(x, y) == Norm(x[1] * y[2], x[2] * y[1])
RLt(x, y) == x[1] * y[2] < y[1] * x[2]
RGt(x, y) == RLt(y, x)
RLe(x, y) == ~RLt(y, x)

RECURSIVE Pow2(_)
Pow2(k) == IF k <= 0 THEN 1 ELSE 2 * Pow2(k - 1)

exp(x) ==
    LET k == x[1] \div x[2]
    IN IF k >= 0 THEN <<Pow2(k), 1>> ELSE <<1, Pow2(-k)>>

(* ------------------------- machine state ------------------------------- *)
(* heap     : live blocks, by address                                      *)
(* log      : the mallocs and frees of the running call, in order          *)
(* fault    : the first undefined access of the call ("none" if none)      *)
(* halted   : the access trapped; nothing after it executes                *)
(* failAt   : the k-th malloc of the call returns NULL (0: none fails)     *)
(* mode, g  : what an undefined access does: "trap", or "elide" (a store   *)
(*            is dropped, a load yields the garbage g)                     *)
(* ncalls   : calls made through the function pointer                      *)
(* r        : the value returned by the last function or malloc            *)
NewSt(h, failAt, mode, g) ==
    [heap |-> h, log |-> <<>>, fault |-> "none", halted |-> FALSE,
     failAt |-> failAt, nmalloc |-> 0, mode |-> mode, g |-> g,
     ncalls |-> 0, r |-> NULL]

Ret(st, p) == [st EXCEPT !.r = p]

Valid(st, p) == p \in DOMAIN st.heap

Fault(st, kind) ==
    IF st.fault # "none" THEN st
    ELSE [st EXCEPT !.fault = kind, !.halted = (st.mode = "trap")]

BadPtr(p) == IF p = NULL THEN "null_deref"
             ELSE IF p = UNINIT THEN "uninit_read" ELSE "use_after_free"

LoggedAddrs(log) == {log[k][2] : k \in DOMAIN log}

Fresh(st) ==
    LET used == DOMAIN st.heap \cup LoggedAddrs(st.log)
    IN CHOOSE a \in 1..(Cardinality(used) + 1) :
          a \notin used /\ \A b \in 1..(a - 1) : b \in used

EmptyCells == [i \in {} |-> 0]

StructBlock ==
    [kind |-> "Matrix", rows |-> 0, cols |-> 0, data |-> UNINIT,
     p |-> EmptyCells, v |-> EmptyCells]
PtrBlock(n) ==
    [kind |-> "rowptrs", rows |-> 0, cols |-> 0, data |-> NULL,
     p |-> [i \in 0..(n - 1) |-> UNINIT], v |-> EmptyCells]
RowBlock(n) ==
    [kind |-> "row", rows |-> 0, cols |-> 0, data |-> NULL,
     p |-> EmptyCells, v |-> [j \in 0..(n - 1) |-> NoVal]]

Malloc(st, blk) ==
    IF st.halted THEN Ret(st, NULL)
    ELSE IF st.nmalloc + 1 = st.failAt
         THEN [st EXCEPT !.nmalloc = @ + 1, !.r = NULL]
         ELSE LET a == Fresh(st)
              IN [st EXCEPT !.nmalloc = @ + 1, !.r = a,
                            !.heap = (a :> blk) @@ st.heap,
                            !.log = Append(@, <<"malloc", a>>)]

Free(st, a) ==
    IF st.halted \/ a = NULL THEN st
    ELSE IF ~Valid(st, a) THEN Fault(st, "bad_free")
    ELSE [st EXCEPT !.heap = [b \in DOMAIN st.heap \ {a} |-> st.heap[b]],
                    !.log = Append(@, <<"free", a>>)]

(* field accesses m->number_of_rows, m->number_of_columns, m->data *)
Touch(st, m) == IF st.halted \/ Valid(st, m) THEN st ELSE Fault(st, BadPtr(m))
Rows(st, m) == IF Valid(st, m) THEN st.heap[m].rows ELSE st.g
Cols(st, m) == IF Valid(st, m) THEN st.heap[m].cols ELSE st.g
Data(st, m) == IF Valid(st, m) THEN st.heap[m].data ELSE NULL

SetDims(st, m, rows, cols) ==
    IF st.halted THEN st
    ELSE IF ~Valid(st, m) THEN Fault(st, BadPtr(m))
    ELSE [st EXCEPT !.heap[m].rows = rows, !.heap[m].cols = cols]

SetData(st, m, d) ==
    IF st.halted THEN st
    ELSE IF ~Valid(st, m) THEN Fault(st, BadPtr(m))
    ELSE [st EXCEPT !.heap[m].data = d]

(* d[i] for the row-pointer array d *)
HasRowPtr(st, d, i) == Valid(st, d) /\ i \in DOMAIN st.heap[d].p
TouchRowPtr(st, d, i) ==
    IF st.halted \/ HasRowPtr(st, d, i) THEN st
    ELSE Fault(st, IF Valid(st, d) THEN "out_of_bounds" ELSE BadPtr(d))
RowPtr(st, d, i) == IF HasRowPtr(st, d, i) THEN st.heap[d].p[i] ELSE NULL
SetRowPtr(st, d, i, rp) ==
    IF st.halted THEN st
    ELSE IF ~HasRowPtr(st, d, i) THEN TouchRowPtr(st, d, i)
    ELSE [st EXCEPT !.heap[d].p[i] = rp]

(* rp[j] for the row buffer rp *)
HasCell(st, rp, j) == Valid(st, rp) /\ j \in DOMAIN st.heap[rp].v
TouchCell(st, rp, j) ==
    IF st.halted \/ HasCell(st, rp, j) THEN st
    ELSE Fault(st, IF Valid(st, rp) THEN "out_of_bounds" ELSE BadPtr(rp))
Cell(st, rp, j) == IF HasCell(st, rp, j) THEN st.heap[rp].v[j] ELSE Rat(st.g)
SetCell(st, rp, j, x) ==
    IF st.halted THEN st
    ELSE IF ~HasCell(st, rp, j) THEN TouchCell(st, rp, j)
    ELSE [st EXCEPT !.heap[rp].v[j] = x]

(* m->data[i][j] as an rvalue: the state after the loads, and the value *)
LoadElemSt(st, m, i, j) ==
    LET s1 == Touch(st, m)
        d == Data(st, m)
        s2 == TouchRowPtr(s1, d, i)
        rp == RowPtr(st, d, i)
        s3 == TouchCell(s2, rp, j)
        x == Cell(st, rp, j)
    IN IF HasCell(st, rp, j) /\ x = NoVal THEN Fault(s3, "uninit_read") ELSE s3

LoadElem(st, m, i, j) ==
    LET x == Cell(st, RowPtr(st, Data(st, m), i), j)
    IN IF x = NoVal THEN Rat(st.g) ELSE x

(* m->data[i][j] = x *)
StoreElem(st, m, i, j, x) ==
    LET s1 == Touch(st, m)
        d == Data(st, m)
        s2 == TouchRowPtr(s1, d, i)
        rp == RowPtr(st, d, i)
    IN SetCell(s2, rp, j, x)

(* ------------------------- create_matrix ------------------------------- *)
(* the cleanup loop stopping one row short *)
RECURSIVE CleanupRowsStopsShort(_, _, _, _)
CleanupRowsStopsShort(st, d, cleanup_index, row_index) ==
    IF st.halted \/ cleanup_index >= row_index - 1 THEN st
    ELSE LET s1 == TouchRowPtr(st, d, cleanup_index)
             rp == RowPtr(st, d, cleanup_index)
             s2 == IF rp # NULL THEN Free(s1, rp) ELSE s1
         IN CleanupRowsStopsShort(s2, d, cleanup_index + 1, row_index)

(* STEP 5, cleanup procedure: free rows 0..row_index-1 *)
RECURSIVE CleanupRows(_, _, _, _)
CleanupRows(st, d, cleanup_index, row_index) ==
    IF st.halted \/ cleanup_index >= row_index THEN st
    ELSE LET s1 == TouchRowPtr(st, d, cleanup_index)
             rp == RowPtr(st, d, cleanup_index)
             s2 == IF rp # NULL THEN Free(s1, rp) ELSE s1
         IN CleanupRows(s2, d, cleanup_index + 1, row_index)

RECURSIVE AllocRows(_, _, _, _, _)

(* the row stored without the NULL test on its buffer *)
AllocRowUnchecked(st, new_matrix, row_index, rows, cols) ==
    AllocRows(SetRowPtr(st, Data(st, new_matrix), row_index, st.r),
              new_matrix, row_index + 1, rows, cols)

(* STEP 5, loop body: data[row_index] is the buffer just returned by      *)
(* malloc; on NULL the rows before it, the array and the structure go     *)
AllocRow(st, new_matrix, row_index, rows, cols) ==
    IF st.r = NULL
    THEN Ret(Free(Free(CleanupRows(SetRowPtr(st, Data(st, new_matrix),
                                             row_index, st.r),
                                   Data(st, new_matrix), 0, row_index),
                       Data(st, new_matrix)),
                  new_matrix),
             NULL)
    ELSE AllocRows(SetRowPtr(st, Data(st, new_matrix), row_index, st.r),
                   new_matrix, row_index + 1, rows, cols)

(* STEP 5: one buffer per row; r = NULL reports the failure *)
AllocRows(st, new_matrix, row_index, rows, cols) ==
    IF row_index >= rows THEN Ret(st, new_matrix)
    ELSE AllocRow(Malloc(st, RowBlock(cols)), new_matrix, row_index, rows, cols)

(* the zero fill stopping one row short *)
RECURSIVE ZeroFillStopsShort(_, _, _, _, _, _)
ZeroFillStopsShort(st, m, row_index, col_index, rows, cols) ==
    IF st.halted \/ row_index >= rows - 1 THEN st
    ELSE IF col_index >= cols
         THEN ZeroFillStopsShort(st, m, row_index + 1, 0, rows, cols)
    ELSE ZeroFillStopsShort(StoreElem(st, m, row_index, col_index, Rat(0)),
                            m, row_index, col_index + 1, rows, cols)

(* STEP 6: data[row_index][col_index] = 0.0, row-major *)
RECURSIVE ZeroFill(_, _, _, _, _, _)
ZeroFill(st, m, row_index, col_index, rows, cols) ==
    IF st.halted \/ row_index >= rows THEN st
    ELSE IF col_index >= cols THEN ZeroFill(st, m, row_index + 1, 0, rows, cols)
    ELSE ZeroFill(StoreElem(st, m, row_index, col_index, Rat(0)),
                  m, row_index, col_index + 1, rows, cols)

(* STEP 6 and STEP 7, after the rows: r = NULL when a row failed *)
create_matrix_STEP6(st, new_matrix, rows, cols) ==
    IF st.r = NULL THEN st
    ELSE Ret(ZeroFill(st, new_matrix, 0, 0, rows, cols), new_matrix)

(* STEP 4, the value just returned by malloc is the row-pointer array *)
create_matrix_STEP4(st, new_matrix, rows, cols) ==
    IF st.r = NULL
    THEN Ret(Free(SetData(st, new_matrix, st.r), new_matrix), NULL)
    ELSE create_matrix_STEP6(AllocRows(SetData(st, new_matrix, st.r),
                                       new_matrix, 0, rows, cols),
                             new_matrix, rows, cols)

(* STEP 2's test and STEP 3: the value just returned by malloc is new_matrix *)
create_matrix_STEP3(st, rows, cols) ==
    IF st.r = NULL THEN Ret(st, NULL)
    ELSE create_matrix_STEP4(Malloc(SetDims(st, st.r, rows, cols), PtrBlock(rows)),
                             st.r, rows, cols)

(* create_matrix validating with < instead of <= *)
create_matrix_AcceptsZero(st, rows, cols) ==
    IF rows < 0 \/ cols < 0 THEN Ret(st, NULL)
    ELSE IF rows * cols > IntMax THEN Ret(st, NULL)
    ELSE create_matrix_STEP3(Malloc(st, StructBlock), rows, cols)

create_matrix(st, rows, cols) ==
    IF rows <= 0 \/ cols <= 0 THEN Ret(st, NULL)
    ELSE IF rows * cols > IntMax THEN Ret(st, NULL)
    ELSE create_matrix_STEP3(Malloc(st, StructBlock), rows, cols)

(* -------------------------- free_matrix -------------------------------- *)
(* STEP 1: free each row that is not NULL *)
RECURSIVE FreeRows(_, _, _)
FreeRows(st, matrix, row_index) ==
    IF st.halted \/ row_index >= Rows(st, matrix) THEN st
    ELSE LET s1 == Touch(st, matrix)
             d == Data(st, matrix)
             s2 == TouchRowPtr(s1, d, row_index)
             rp == RowPtr(st, d, row_index)
             s3 == IF rp # NULL THEN Free(s2, rp) ELSE s2
         IN FreeRows(s3, matrix, row_index + 1)

(* the structure released before the row-pointer array *)
free_matrix_STEP2_StructFirst(st, matrix) ==
    IF Data(st, matrix) # NULL THEN Free(Free(st, matrix), Data(st, matrix))
    ELSE Free(st, matrix)

(* STEP 2 and STEP 3: the row-pointer array, then the structure *)
free_matrix_STEP2(st, matrix) ==
    Free(IF Data(st, matrix) # NULL THEN Free(st, Data(st, matrix)) ELSE st,
         matrix)

(* free_matrix without its test for NULL *)
free_matrix_NoNullTest(st, matrix) ==
    free_matrix_STEP2(FreeRows(Touch(st, matrix), matrix, 0), matrix)

(* free_matrix forgetting the row-pointer array *)
free_matrix_KeepsArray(st, matrix) ==
    IF matrix = NULL THEN st
    ELSE Free(FreeRows(Touch(st, matrix), matrix, 0), matrix)

free_matrix(st, matrix) ==
    IF matrix = NULL THEN st
    ELSE free_matrix_STEP2(FreeRows(Touch(st, matrix), matrix, 0), matrix)

(* ------------------------ scalar functions ----------------------------- *)
One == Rat(1)

sigmoid(x) == RDiv(One, RAdd(One, exp(RSub(Rat(0), x))))

sigmoid_derivative(x) ==
    LET sig_val == sigmoid(x) IN RMul(sig_val, RSub(One, sig_val))

tanh_activation(x) ==
    LET exp_positive == exp(x)
        exp_negative == exp(RSub(Rat(0), x))
    IN RDiv(RSub(exp_positive, exp_negative), RAdd(exp_positive, exp_negative))

tanh_derivative(x) ==
    LET tanh_val == tanh_activation(x) IN RSub(One, RMul(tanh_val, tanh_val))

identity(x) == x

NULLFN == "NULL"

(* a call through the function pointer f *)
CallFn(f, x) ==
    CASE f = "sigmoid" -> sigmoid(x)
      [] f = "sigmoid_derivative" -> sigmoid_derivative(x)
      [] f = "tanh_activation" -> tanh_activation(x)
      [] f = "tanh_derivative" -> tanh_derivative(x)
      [] f = "identity" -> identity(x)
      [] OTHER -> Rat(0)

CallSt(st, f) ==
    IF st.halted THEN st
    ELSE IF f = NULLFN THEN Fault(st, "null_call")
    ELSE [st EXCEPT !.ncalls = @ + 1]

(* -------------------- apply_function_elementwise ----------------------- *)
(* the inner loop stopping one column short *)
RECURSIVE MapLoopStopsShort(_, _, _, _, _, _, _, _)
MapLoopStopsShort(st, input_matrix, output_matrix, f, row_index, col_index, rows, cols) ==
    IF st.halted \/ row_index >= rows THEN st
    ELSE IF col_index >= cols - 1
         THEN MapLoopStopsShort(st, input_matrix, output_matrix, f,
                                row_index + 1, 0, rows, cols)
    ELSE LET s1 == LoadElemSt(st, input_matrix, row_index, col_index)
             current_value == LoadElem(st, input_matrix, row_index, col_index)
             s2 == CallSt(s1, f)
             transformed_value == CallFn(f, current_value)
             s3 == StoreElem(s2, output_matrix, row_index, col_index,
                             transformed_value)
         IN MapLoopStopsShort(s3, input_matrix, output_matrix, f,
                              row_index, col_index + 1, rows, cols)

(* STEP 3: output[row][col] = function_to_apply(input[row][col]) *)
RECURSIVE MapLoop(_, _, _, _, _, _, _, _)
MapLoop(st, input_matrix, output_matrix, f, row_index, col_index, rows, cols) ==
    IF st.halted \/ row_index >= rows THEN st
    ELSE IF col_index >= cols
         THEN MapLoop(st, input_matrix, output_matrix, f, row_index + 1, 0, rows, cols)
    ELSE LET s1 == LoadElemSt(st, input_matrix, row_index, col_index)
             current_value == LoadElem(st, input_matrix, row_index, col_index)
             s2 == CallSt(s1, f)
             transformed_value == CallFn(f, current_value)
             s3 == StoreElem(s2, output_matrix, row_index, col_index,
                             transformed_value)
         IN MapLoop(s3, input_matrix, output_matrix, f,
                    row_index, col_index + 1, rows, cols)

(* STEP 2's test, STEP 3 and STEP 4: the value just returned by           *)
(* create_matrix is output_matrix                                         *)
apply_function_elementwise_STEP3(st, input_matrix, f) ==
    IF st.r = NULL THEN Ret(st, NULL)
    ELSE Ret(MapLoop(st, input_matrix, st.r, f, 0, 0,
                     Rows(st, input_matrix), Cols(st, input_matrix)),
             st.r)

(* the mapper without the test for a NULL input *)
apply_function_elementwise_NoNullTest(st, input_matrix, f) ==
    apply_function_elementwise_STEP3(
        create_matrix(Touch(st, input_matrix),
                      Rows(st, input_matrix), Cols(st, input_matrix)),
        input_matrix, f)

(* the mapper testing only its input, not the function pointer *)
apply_function_elementwise_NoFnTest(st, input_matrix, f) ==
    IF input_matrix = NULL THEN Ret(st, NULL)
    ELSE apply_function_elementwise_STEP3(
             create_matrix(Touch(st, input_matrix),
                           Rows(st, input_matrix), Cols(st, input_matrix)),
             input_matrix, f)

apply_function_elementwise(st, input_matrix, f) ==
    IF input_matrix = NULL THEN Ret(st, NULL)
    ELSE IF Data(st, input_matrix) = NULL THEN Ret(Touch(st, input_matrix), NULL)
    ELSE IF Rows(st, input_matrix) <= 0 THEN Ret(Touch(st, input_matrix), NULL)
    ELSE IF Cols(st, input_matrix) <= 0 THEN Ret(Touch(st, input_matrix), NULL)
    ELSE IF f = NULLFN THEN Ret(Touch(st, input_matrix), NULL)
    ELSE apply_function_elementwise_STEP3(
             create_matrix(Touch(st, input_matrix),
                           Rows(st, input_matrix), Cols(st, input_matrix)),
             input_matrix, f)

apply_sigmoid_to_matrix(st, input_matrix) ==
    apply_function_elementwise(st, input_matrix, "sigmoid")

apply_tanh_to_matrix(st, input_matrix) ==
    apply_function_elementwise(st, input_matrix, "tanh_activation")

apply_sigmoid_derivative_to_matrix(st, input_matrix) ==
    apply_function_elementwise(st, input_matrix, "sigmoid_derivative")

apply_tanh_derivative_to_matrix(st, input_matrix) ==
    apply_function_elementwise(st, input_matrix, "tanh_derivative")

(* --------------------------- hadamard_product -------------------------- *)
(* the product taken of A's element with itself *)
RECURSIVE HadamardLoopSquares(_, _, _, _, _, _, _, _)
HadamardLoopSquares(st, A, B, result, i, j, rows, cols) ==
    IF st.halted \/ i >= rows THEN st
    ELSE IF j >= cols
         THEN HadamardLoopSquares(st, A, B, result, i + 1, 0, rows, cols)
    ELSE LET s1 == LoadElemSt(LoadElemSt(st, A, i, j), B, i, j)
             x == RMul(LoadElem(st, A, i, j), LoadElem(st, A, i, j))
         IN HadamardLoopSquares(StoreElem(s1, result, i, j, x),
                                A, B, result, i, j + 1, rows, cols)

RECURSIVE HadamardLoop(_, _, _, _, _, _, _, _)
HadamardLoop(st, A, B, result, i, j, rows, cols) ==
    IF st.halted \/ i >= rows THEN st
    ELSE IF j >= cols THEN HadamardLoop(st, A, B, result, i + 1, 0, rows, cols)
    ELSE LET s1 == LoadElemSt(LoadElemSt(st, A, i, j), B, i, j)
             x == RMul(LoadElem(st, A, i, j), LoadElem(st, B, i, j))
         IN HadamardLoop(StoreElem(s1, result, i, j, x),
                         A, B, result, i, j + 1, rows, cols)

(* lines 42-48: result is the value just returned by create_matrix *)
HadamardInto(st, A, B) ==
    Ret(HadamardLoop(st, A, B, st.r, 0, 0, Rows(st, A), Cols(st, A)), st.r)

(* the shape test comparing the row counts only *)
hadamard_product_RowsOnly(st, A, B) ==
    IF Rows(st, A) # Rows(st, B)
    THEN Ret(Touch(Touch(st, A), B), NULL)
    ELSE HadamardInto(create_matrix(Touch(Touch(st, A), B),
                                    Rows(st, A), Cols(st, A)),
                      A, B)

hadamard_product(st, A, B) ==
    IF Rows(st, A) # Rows(st, B) \/ Cols(st, A) # Cols(st, B)
    THEN Ret(Touch(Touch(st, A), B), NULL)
    ELSE HadamardInto(create_matrix(Touch(Touch(st, A), B),
                                    Rows(st, A), Cols(st, A)),
                      A, B)

(* ------------------------------ clip_matrix ---------------------------- *)
(* the clamp written back into the input *)
RECURSIVE ClipLoopInPlace(_, _, _, _, _, _, _, _, _)
ClipLoopInPlace(st, matrix, result, min_val, max_val, i, j, rows, cols) ==
    IF st.halted \/ i >= rows THEN st
    ELSE IF j >= cols
         THEN ClipLoopInPlace(st, matrix, result, min_val, max_val, i + 1, 0, rows, cols)
    ELSE LET s1 == LoadElemSt(st, matrix, i, j)
             value == LoadElem(st, matrix, i, j)
             x == IF RLt(value, min_val) THEN min_val
                  ELSE IF RGt(value, max_val) THEN max_val
                  ELSE value
         IN ClipLoopInPlace(StoreElem(s1, matrix, i, j, x),
                            matrix, result, min_val, max_val, i, j + 1, rows, cols)

(* the clamp without its upper branch *)
RECURSIVE ClipLoopNoUpper(_, _, _, _, _, _, _, _, _)
ClipLoopNoUpper(st, matrix, result, min_val, max_val, i, j, rows, cols) ==
    IF st.halted \/ i >= rows THEN st
    ELSE IF j >= cols
         THEN ClipLoopNoUpper(st, matrix, result, min_val, max_val, i + 1, 0, rows, cols)
    ELSE LET s1 == LoadElemSt(st, matrix, i, j)
             value == LoadElem(st, matrix, i, j)
             x == IF RLt(value, min_val) THEN min_val ELSE value
         IN ClipLoopNoUpper(StoreElem(s1, result, i, j, x),
                            matrix, result, min_val, max_val, i, j + 1, rows, cols)

RECURSIVE ClipLoop(_, _, _, _, _, _, _, _, _)
ClipLoop(st, matrix, result, min_val, max_val, i, j, rows, cols) ==
    IF st.halted \/ i >= rows THEN st
    ELSE IF j >= cols
         THEN ClipLoop(st, matrix, result, min_val, max_val, i + 1, 0, rows, cols)
    ELSE LET s1 == LoadElemSt(st, matrix, i, j)
             value == LoadElem(st, matrix, i, j)
             x == IF RLt(value, min_val) THEN min_val
                  ELSE IF RGt(value, max_val) THEN max_val
                  ELSE value
         IN ClipLoop(StoreElem(s1, result, i, j, x),
                     matrix, result, min_val, max_val, i, j + 1, rows, cols)

(* lines 161-174: result is the value just returned by create_matrix *)
ClipInto(st, matrix, min_val, max_val) ==
    Ret(ClipLoop(st, matrix, st.r, min_val, max_val, 0, 0,
                 Rows(st, matrix), Cols(st, matrix)),
        st.r)

clip_matrix(st, matrix, min_val, max_val) ==
    ClipInto(create_matrix(Touch(st, matrix), Rows(st, matrix), Cols(st, matrix)),
             matrix, min_val, max_val)

(* ------------------- extract / insert row and column ------------------- *)
(* the copy loop reading row 0 whatever the index *)
RECURSIVE ExtractRowLoopFirstRow(_, _, _, _, _, _)
ExtractRowLoopFirstRow(st, matrix, result, row_index, j, cols) ==
    IF st.halted \/ j >= cols THEN st
    ELSE ExtractRowLoopFirstRow(
             StoreElem(LoadElemSt(st, matrix, 0, j), result, 0, j,
                       LoadElem(st, matrix, 0, j)),
             matrix, result, row_index, j + 1, cols)

RECURSIVE ExtractRowLoop(_, _, _, _, _, _)
ExtractRowLoop(st, matrix, result, row_index, j, cols) ==
    IF st.halted \/ j >= cols THEN st
    ELSE LET s1 == LoadElemSt(st, matrix, row_index, j)
             x == LoadElem(st, matrix, row_index, j)
         IN ExtractRowLoop(StoreElem(s1, result, 0, j, x),
                           matrix, result, row_index, j + 1, cols)

(* the result made to share the row buffer of the source *)
ExtractRowIntoShared(st, matrix, row_index) ==
    Ret(SetRowPtr(st, Data(st, st.r), 0, RowPtr(st, Data(st, matrix), row_index)),
        st.r)

(* lines 129-132: result is the value just returned by create_matrix *)
ExtractRowInto(st, matrix, row_index) ==
    Ret(ExtractRowLoop(st, matrix, st.r, row_index, 0, Cols(st, matrix)), st.r)

extract_row(st, matrix, row_index) ==
    ExtractRowInto(create_matrix(Touch(st, matrix), 1, Cols(st, matrix)),
                   matrix, row_index)

RECURSIVE ExtractColumnLoop(_, _, _, _, _, _)
ExtractColumnLoop(st, matrix, result, col_index, i, rows) ==
    IF st.halted \/ i >= rows THEN st
    ELSE LET s1 == LoadElemSt(st, matrix, i, col_index)
             x == LoadElem(st, matrix, i, col_index)
         IN ExtractColumnLoop(StoreElem(s1, result, i, 0, x),
                              matrix, result, col_index, i + 1, rows)

(* lines 137-140: result is the value just returned by create_matrix *)
ExtractColumnInto(st, matrix, col_index) ==
    Ret(ExtractColumnLoop(st, matrix, st.r, col_index, 0, Rows(st, matrix)), st.r)

extract_column(st, matrix, col_index) ==
    ExtractColumnInto(create_matrix(Touch(st, matrix), Rows(st, matrix), 1),
                      matrix, col_index)

(* the copy loop writing row 0 whatever the index *)
RECURSIVE InsertRowLoopFirstRow(_, _, _, _, _, _)
InsertRowLoopFirstRow(st, dest_matrix, row_index, source_row, j, cols) ==
    IF st.halted \/ j >= cols THEN st
    ELSE InsertRowLoopFirstRow(
             StoreElem(LoadElemSt(st, source_row, 0, j), dest_matrix, 0, j,
                       LoadElem(st, source_row, 0, j)),
             dest_matrix, row_index, source_row, j + 1, cols)

RECURSIVE InsertRowLoop(_, _, _, _, _, _)
InsertRowLoop(st, dest_matrix, row_index, source_row, j, cols) ==
    IF st.halted \/ j >= cols THEN st
    ELSE LET s1 == LoadElemSt(st, source_row, 0, j)
             x == LoadElem(st, source_row, 0, j)
         IN InsertRowLoop(StoreElem(s1, dest_matrix, row_index, j, x),
                          dest_matrix, row_index, source_row, j + 1, cols)

insert_row(st, dest_matrix, row_index, source_row) ==
    LET s0 == Touch(st, dest_matrix)
    IN InsertRowLoop(s0, dest_matrix, row_index, source_row, 0,
                     Cols(s0, dest_matrix))

RECURSIVE InsertColumnLoop(_, _, _, _, _, _)
InsertColumnLoop(st, dest_matrix, col_index, source_col, i, rows) ==
    IF st.halted \/ i >= rows THEN st
    ELSE LET s1 == LoadElemSt(st, source_col, i, 0)
             x == LoadElem(st, source_col, i, 0)
         IN InsertColumnLoop(StoreElem(s1, dest_matrix, i, col_index, x),
                             dest_matrix, col_index, source_col, i + 1, rows)

insert_column(st, dest_matrix, col_index, source_col) ==
    LET s0 == Touch(st, dest_matrix)
    IN InsertColumnLoop(s0, dest_matrix, col_index, source_col, 0,
                        Rows(s0, dest_matrix))

(* ------------------------ apply_softmax_to_vector ---------------------- *)
MAX(a, b) == IF a > b THEN a ELSE b

(* element i of a 1xN or Nx1 vector *)
GetElementSt(st, matrix, i) ==
    IF Rows(st, matrix) = 1 THEN LoadElemSt(st, matrix, 0, i)
    ELSE LoadElemSt(st, matrix, i, 0)

GET_ELEMENT(st, matrix, i) ==
    IF Rows(st, matrix) = 1 THEN LoadElem(st, matrix, 0, i)
    ELSE LoadElem(st, matrix, i, 0)

SET_ELEMENT(st, matrix, i, x) ==
    IF Rows(st, matrix) = 1 THEN StoreElem(Touch(st, matrix), matrix, 0, i, x)
    ELSE StoreElem(Touch(st, matrix), matrix, i, 0, x)

(* the loads of one pass over the vector *)
RECURSIVE ScanSt(_, _, _, _)
ScanSt(st, matrix, i, length) ==
    IF st.halted \/ i >= length THEN st
    ELSE ScanSt(GetElementSt(st, matrix, i), matrix, i + 1, length)

(* the running maximum missing the last element *)
RECURSIVE SoftmaxMaxStopsShort(_, _, _, _, _)
SoftmaxMaxStopsShort(st, matrix, i, length, max_val) ==
    IF i >= length - 1 THEN max_val
    ELSE SoftmaxMaxStopsShort(st, matrix, i + 1, length,
                              IF RGt(GET_ELEMENT(st, matrix, i), max_val)
                              THEN GET_ELEMENT(st, matrix, i) ELSE max_val)

(* first loop: the running maximum *)
RECURSIVE SoftmaxMax(_, _, _, _, _)
SoftmaxMax(st, matrix, i, length, max_val) ==
    IF i >= length THEN max_val
    ELSE LET current_val == GET_ELEMENT(st, matrix, i)
         IN SoftmaxMax(st, matrix, i + 1, length,
                       IF RGt(current_val, max_val) THEN current_val ELSE max_val)

(* the sum with the maximum left out of the exponent *)
RECURSIVE SoftmaxSumUnshifted(_, _, _, _, _, _)
SoftmaxSumUnshifted(st, matrix, i, length, max_val, sum_exp) ==
    IF i >= length THEN sum_exp
    ELSE SoftmaxSumUnshifted(st, matrix, i + 1, length, max_val,
                             RAdd(sum_exp, exp(GET_ELEMENT(st, matrix, i))))

(* second loop: the sum of the exponentials *)
RECURSIVE SoftmaxSum(_, _, _, _, _, _)
SoftmaxSum(st, matrix, i, length, max_val, sum_exp) ==
    IF i >= length THEN sum_exp
    ELSE LET current_val == GET_ELEMENT(st, matrix, i)
             exp_val == exp(RSub(current_val, max_val))
         IN SoftmaxSum(st, matrix, i + 1, length, max_val, RAdd(sum_exp, exp_val))

(* the quotients with the maximum left out of the numerator *)
RECURSIVE SoftmaxStoreUnshifted(_, _, _, _, _, _, _)
SoftmaxStoreUnshifted(st, matrix, result, i, length, max_val, sum_exp) ==
    IF st.halted \/ i >= length THEN st
    ELSE LET s1 == GetElementSt(st, matrix, i)
             current_val == GET_ELEMENT(st, matrix, i)
             softmax_val == RDiv(exp(current_val), sum_exp)
         IN SoftmaxStoreUnshifted(SET_ELEMENT(s1, result, i, softmax_val),
                                  matrix, result, i + 1, length, max_val, sum_exp)

(* the quotients turned upside down *)
RECURSIVE SoftmaxStoreInverted(_, _, _, _, _, _, _)
SoftmaxStoreInverted(st, matrix, result, i, length, max_val, sum_exp) ==
    IF st.halted \/ i >= length THEN st
    ELSE LET s1 == GetElementSt(st, matrix, i)
             current_val == GET_ELEMENT(st, matrix, i)
             exp_val == exp(RSub(current_val, max_val))
             softmax_val == RDiv(sum_exp, exp_val)
         IN SoftmaxStoreInverted(SET_ELEMENT(s1, result, i, softmax_val),
                                 matrix, result, i + 1, length, max_val, sum_exp)

(* third loop: the quotients *)
RECURSIVE SoftmaxStore(_, _, _, _, _, _, _)
SoftmaxStore(st, matrix, result, i, length, max_val, sum_exp) ==
    IF st.halted \/ i >= length THEN st
    ELSE LET s1 == GetElementSt(st, matrix, i)
             current_val == GET_ELEMENT(st, matrix, i)
             exp_val == exp(RSub(current_val, max_val))
             softmax_val == RDiv(exp_val, sum_exp)
         IN SoftmaxStore(SET_ELEMENT(s1, result, i, softmax_val),
                         matrix, result, i + 1, length, max_val, sum_exp)

(* lines 73-89: the sum, the quotients, the return *)
SoftmaxQuotients(st, matrix, result, length, max_val) ==
    Ret(SoftmaxStore(ScanSt(st, matrix, 0, length), matrix, result, 0, length,
                     max_val, SoftmaxSum(st, matrix, 0, length, max_val, Rat(0))),
        result)

(* lines 64-71: result is the value just returned by create_matrix *)
SoftmaxInto(st, matrix, length) ==
    SoftmaxQuotients(ScanSt(LoadElemSt(st, matrix, 0, 0), matrix, 0, length),
                     matrix, st.r, length,
                     SoftmaxMax(st, matrix, 0, length, LoadElem(st, matrix, 0, 0)))

(* the vector test on the row count alone: column vectors are refused *)
apply_softmax_to_vector_RowsOnly(st, matrix) ==
    IF Rows(st, matrix) # 1
    THEN Ret(Touch(st, matrix), NULL)
    ELSE SoftmaxInto(create_matrix(Touch(st, matrix),
                                   Rows(st, matrix), Cols(st, matrix)),
                     matrix, MAX(Rows(st, matrix), Cols(st, matrix)))

apply_softmax_to_vector(st, matrix) ==
    IF Rows(st, matrix) # 1 /\ Cols(st, matrix) # 1
    THEN Ret(Touch(st, matrix), NULL)
    ELSE SoftmaxInto(create_matrix(Touch(st, matrix),
                                   Rows(st, matrix), Cols(st, matrix)),
                     matrix, MAX(Rows(st, matrix), Cols(st, matrix)))

(* ------------------------ softmax (array version) ---------------------- *)
(* first loop of softmax(input_array, output_array, array_length): the     *)
(* running maximum from index 1 on, input_array a function on              *)
(* 0..array_length-1                                                       *)
RECURSIVE softmax_MaxLoop(_, _, _, _)
softmax_MaxLoop(input_array, i, array_length, max_val) ==
    IF i >= array_length THEN max_val
    ELSE softmax_MaxLoop(input_array, i + 1, array_length,
                         IF RGt(input_array[i], max_val) THEN input_array[i]
                         ELSE max_val)

softmax_max_val(input_array, array_length) ==
    softmax_MaxLoop(input_array, 1, array_length, input_array[0])

(* --------------------------- apply_softmax_batch ----------------------- *)
dealloc_matrix(st, matrix) == free_matrix(st, matrix)

(* lines 106-108: softmax_row is the value just returned *)
BatchRowInsert(st, result, i, row_vector) ==
    dealloc_matrix(dealloc_matrix(insert_row(st, result, i, st.r), row_vector),
                   st.r)

(* line 105: row_vector is the value just returned *)
BatchRowSoftmax(st, result, i) ==
    BatchRowInsert(apply_softmax_to_vector(st, st.r), result, i, st.r)

RECURSIVE BatchRows(_, _, _, _, _)
BatchRows(st, matrix, result, i, rows) ==
    IF st.halted \/ i >= rows THEN st
    ELSE BatchRows(BatchRowSoftmax(extract_row(st, matrix, i), result, i),
                   matrix, result, i + 1, rows)

(* lines 115-117: softmax_col is the value just returned *)
BatchColumnInsert(st, result, j, col_vector) ==
    dealloc_matrix(dealloc_matrix(insert_column(st, result, j, st.r), col_vector),
                   st.r)

(* line 114: col_vector is the value just returned *)
BatchColumnSoftmax(st, result, j) ==
    BatchColumnInsert(apply_softmax_to_vector(st, st.r), result, j, st.r)

RECURSIVE BatchColumns(_, _, _, _, _)
BatchColumns(st, matrix, result, j, cols) ==
    IF st.halted \/ j >= cols THEN st
    ELSE BatchColumns(BatchColumnSoftmax(extract_column(st, matrix, j), result, j),
                      matrix, result, j + 1, cols)

(* rows for every axis but 0 *)
BatchIntoRowsUnlessZero(st, matrix, axis, rows, cols) ==
    IF axis # 0
    THEN Ret(BatchRows(st, matrix, st.r, 0, rows), st.r)
    ELSE Ret(BatchColumns(st, matrix, st.r, 0, cols), st.r)

(* the two axes exchanged *)
BatchIntoAxesSwapped(st, matrix, axis, rows, cols) ==
    IF axis = 0
    THEN Ret(BatchRows(st, matrix, st.r, 0, rows), st.r)
    ELSE Ret(BatchColumns(st, matrix, st.r, 0, cols), st.r)

(* lines 101-121: result is the value just returned by create_matrix *)
BatchInto(st, matrix, axis, rows, cols) ==
    IF axis = 1
    THEN Ret(BatchRows(st, matrix, st.r, 0, rows), st.r)
    ELSE Ret(BatchColumns(st, matrix, st.r, 0, cols), st.r)

apply_softmax_batch(st, matrix, axis) ==
    BatchInto(create_matrix(Touch(st, matrix), Rows(st, matrix), Cols(st, matrix)),
              matrix, axis, Rows(st, matrix), Cols(st, matrix))

(* ============================ the caller =============================== *)
(* The caller follows the pattern of the tests: it creates its inputs (A,  *)
(* then the second operand B), fills them cell by cell in row-major order, *)
(* makes one call, and releases what it holds (the result, B, A); a failed *)
(* create sends it to the release code at once.                            *)
(*   slot  : the input handles          out  : the handle of the result    *)
(*   fill  : cells of each input stored so far                             *)
(*   phase : "setup" until the call is made, then "cleanup"                *)
(*   last  : what the most recent call did                                 *)
VARIABLES heap, slot, out, fill, phase, last

(* the test programs: the position in main_test_runner and in             *)
(* test_matrix_operations, their locals, and the frames of a call         *)
(* followed iteration by iteration                                        *)
VARIABLES pc, total_failures, part_failures,
          test_matrix, sigmoid_result, tanh_result,
          sigmoid_deriv_result, tanh_deriv_result,
          reported, stack

(* the locals of the test programs *)
prog == <<pc, total_failures, part_failures,
          test_matrix, sigmoid_result, tanh_result,
          sigmoid_deriv_result, tanh_deriv_result, reported, stack>>

vars == <<heap, slot, out, fill, phase, last, prog>>

EmptyHeap == [a \in {} |-> StructBlock]

(* the outcomes of an undefined access: it traps, or it is elided *)
UB == {<<"trap", 0>>, <<"elide", 0>>, <<"elide", 1>>}

(* every way a call F can go from the current heap: each malloc of the    *)
(* call may be the one that fails, each undefined access has each outcome *)
Outcomes(F(_)) ==
    UNION { LET t == F(NewSt(heap, k, "trap", 0))
            IN IF t.fault = "none" THEN {t}
               ELSE {t, F(NewSt(heap, k, "elide", 0)),
                        F(NewSt(heap, k, "elide", 1))} :
            k \in 0..F(NewSt(heap, 0, "trap", 0)).nmalloc }

Record(op, in1, in2, a1, a2, f, st) ==
    [op |-> op, in1 |-> in1, in2 |-> in2, a1 |-> a1, a2 |-> a2, f |-> f,
     ret |-> st.r, log |-> st.log, fault |-> st.fault, halted |-> st.halted,
     failAt |-> st.failAt, nmalloc |-> st.nmalloc, ncalls |-> st.ncalls,
     pre |-> heap]

Init ==
    /\ heap = EmptyHeap
    /\ slot = [s \in Slots |-> NULL]
    /\ out = NULL
    /\ fill = [s \in Slots |-> 0]
    /\ phase = "setup"
    /\ last = [op |-> "start", in1 |-> NULL, in2 |-> NULL, a1 |-> 0, a2 |-> 0,
               f |-> "", ret |-> NULL, log |-> <<>>, fault |-> "none",
               halted |-> FALSE, failAt |-> 0, nmalloc |-> 0, ncalls |-> 0,
               pre |-> EmptyHeap]
    /\ pc = "idle" /\ total_failures = 0 /\ part_failures = 0
    /\ test_matrix = UNINIT /\ sigmoid_result = UNINIT /\ tanh_result = UNINIT
    /\ sigmoid_deriv_result = UNINIT /\ tanh_deriv_result = UNINIT
    /\ reported = <<>> /\ stack = <<>>

Running == ~last.halted
Setup == Running /\ phase = "setup"
(* a call on A alone is made before B is created *)
Alone == Setup /\ slot["B"] = NULL

(* m = create_matrix(rows, cols); IF m is NULL: GOTO cleanup *)
CreateMatrix(s, rows, cols) ==
    /\ Alone /\ slot[s] = NULL
    /\ s = "B" => slot["A"] # NULL
    /\ \E st \in Outcomes(LAMBDA s0 : create_matrix(s0, rows, cols)) :
          /\ heap' = st.heap
          /\ slot' = IF st.halted THEN slot ELSE [slot EXCEPT ![s] = st.r]
          /\ phase' = IF st.r = NULL THEN "cleanup" ELSE "setup"
          /\ last' = Record("create_matrix", NULL, NULL, rows, cols, "", st)
    /\ UNCHANGED <<out, fill>>
    /\ UNCHANGED prog

(* m->data[i][j] = v for the next cell of m in row-major order *)
SetElement(s, v) ==
    /\ Setup /\ slot[s] # NULL
    /\ fill["A"] + fill["B"] < MaxWrites
    /\ fill[s] < heap[slot[s]].rows * heap[slot[s]].cols
    /\ LET i == fill[s] \div heap[slot[s]].cols
           j == fill[s] % heap[slot[s]].cols
           st == StoreElem(NewSt(heap, 0, "trap", 0), slot[s], i, j, Rat(v))
       IN /\ heap' = st.heap
          /\ last' = Record("set", slot[s], NULL, i, j, "", Ret(st, NULL))
    /\ fill' = [fill EXCEPT ![s] = @ + 1]
    /\ UNCHANGED <<slot, out, phase>>
    /\ UNCHANGED prog

(* free_matrix(output); output = NULL *)
FreeOut ==
    /\ Running /\ out # NULL
    /\ \E st \in Outcomes(LAMBDA s0 : free_matrix(s0, out)) :
          /\ heap' = st.heap
          /\ last' = Record("free_matrix", out, NULL, 0, 0, "", Ret(st, NULL))
    /\ out' = NULL
    /\ phase' = "cleanup"
    /\ UNCHANGED <<slot, fill>>
    /\ UNCHANGED prog

(* free_matrix(m); m = NULL -- B before A, and A may be NULL *)
FreeMatrix(s) ==
    /\ Running /\ out = NULL
    /\ s = "A" => slot["B"] = NULL
    /\ s = "B" => slot["B"] # NULL
    /\ \E st \in Outcomes(LAMBDA s0 : free_matrix(s0, slot[s])) :
          /\ heap' = st.heap
          /\ last' = Record("free_matrix", slot[s], NULL, 0, 0, "", Ret(st, NULL))
    /\ slot' = [slot EXCEPT ![s] = NULL]
    /\ fill' = [fill EXCEPT ![s] = 0]
    /\ phase' = IF s = "A" THEN "setup" ELSE "cleanup"
    /\ UNCHANGED out
    /\ UNCHANGED prog

(* output = <a call that returns a matrix> *)
Returns(op, in1, in2, a1, a2, f, F(_)) ==
    /\ \E st \in Outcomes(F) :
          /\ heap' = st.heap
          /\ out' = IF st.halted THEN out ELSE st.r
          /\ last' = Record(op, in1, in2, a1, a2, f, st)
    /\ phase' = "cleanup"
    /\ UNCHANGED <<slot, fill>>
    /\ UNCHANGED prog

ApplyFunctionElementwise(f) ==
    /\ Alone
    /\ Returns("apply_function_elementwise", slot["A"], NULL, 0, 0, f,
               LAMBDA s0 : apply_function_elementwise(s0, slot["A"], f))

ApplySigmoidToMatrix ==
    /\ Alone
    /\ Returns("apply_sigmoid_to_matrix", slot["A"], NULL, 0, 0, "sigmoid",
               LAMBDA s0 : apply_sigmoid_to_matrix(s0, slot["A"]))

ApplyTanhToMatrix ==
    /\ Alone
    /\ Returns("apply_tanh_to_matrix", slot["A"], NULL, 0, 0, "tanh_activation",
               LAMBDA s0 : apply_tanh_to_matrix(s0, slot["A"]))

ApplySigmoidDerivativeToMatrix ==
    /\ Alone
    /\ Returns("apply_sigmoid_derivative_to_matrix", slot["A"], NULL, 0, 0,
               "sigmoid_derivative",
               LAMBDA s0 : apply_sigmoid_derivative_to_matrix(s0, slot["A"]))

ApplyTanhDerivativeToMatrix ==
    /\ Alone
    /\ Returns("apply_tanh_derivative_to_matrix", slot["A"], NULL, 0, 0,
               "tanh_derivative",
               LAMBDA s0 : apply_tanh_derivative_to_matrix(s0, slot["A"]))

HadamardProduct ==
    /\ Setup
    /\ Returns("hadamard_product", slot["A"], slot["B"], 0, 0, "",
               LAMBDA s0 : hadamard_product(s0, slot["A"], slot["B"]))

ClipMatrix(min_val, max_val) ==
    /\ Alone /\ min_val <= max_val
    /\ Returns("clip_matrix", slot["A"], NULL, min_val, max_val, "",
               LAMBDA s0 : clip_matrix(s0, slot["A"], Rat(min_val), Rat(max_val)))

ExtractRow(row_index) ==
    /\ Alone
    /\ slot["A"] # NULL => row_index < heap[slot["A"]].rows
    /\ slot["A"] = NULL => row_index = 0
    /\ Returns("extract_row", slot["A"], NULL, row_index, 0, "",
               LAMBDA s0 : extract_row(s0, slot["A"], row_index))

ExtractColumn(col_index) ==
    /\ Alone
    /\ slot["A"] # NULL => col_index < heap[slot["A"]].cols
    /\ slot["A"] = NULL => col_index = 0
    /\ Returns("extract_column", slot["A"], NULL, col_index, 0, "",
               LAMBDA s0 : extract_column(s0, slot["A"], col_index))

ApplySoftmaxToVector ==
    /\ Alone
    /\ Returns("apply_softmax_to_vector", slot["A"], NULL, 0, 0, "",
               LAMBDA s0 : apply_softmax_to_vector(s0, slot["A"]))

ApplySoftmaxBatch(axis) ==
    /\ Alone
    /\ Returns("apply_softmax_batch", slot["A"], NULL, axis, 0, "",
               LAMBDA s0 : apply_softmax_batch(s0, slot["A"], axis))

(* insert_row(A, row_index, B) and insert_column(A, col_index, B) *)
Inserts(op, a1, F(_)) ==
    /\ \E st \in Outcomes(F) :
          /\ heap' = st.heap
          /\ last' = Record(op, slot["A"], slot["B"], a1, 0, "", Ret(st, NULL))
    /\ phase' = "cleanup"
    /\ UNCHANGED <<slot, out, fill>>
    /\ UNCHANGED prog

InsertRow(row_index) ==
    /\ Setup /\ slot["A"] # NULL /\ slot["B"] # NULL
    /\ row_index < heap[slot["A"]].rows
    /\ Inserts("insert_row", row_index,
               LAMBDA s0 : insert_row(s0, slot["A"], row_index, slot["B"]))

InsertColumn(col_index) ==
    /\ Setup /\ slot["A"] # NULL /\ slot["B"] # NULL
    /\ col_index < heap[slot["A"]].cols
    /\ Inserts("insert_column", col_index,
               LAMBDA s0 : insert_column(s0, slot["A"], col_index, slot["B"]))

Fns == {"identity", NULLFN}
Axes == {-1, 0, 1, 2}
Index == 0..(MaxDim - 1)

Next ==
    \/ \E s \in Slots, rows \in AskDims, cols \in AskDims : CreateMatrix(s, rows, cols)
    \/ \E s \in Slots, v \in Vals : SetElement(s, v)
    \/ \E s \in Slots : FreeMatrix(s)
    \/ FreeOut
    \/ \E f \in Fns : ApplyFunctionElementwise(f)
    \/ ApplySigmoidToMatrix
    \/ ApplyTanhToMatrix
    \/ ApplySigmoidDerivativeToMatrix
    \/ ApplyTanhDerivativeToMatrix
    \/ HadamardProduct
    \/ \E min_val \in Vals, max_val \in Vals : ClipMatrix(min_val, max_val)
    \/ \E row_index \in Index : ExtractRow(row_index)
    \/ \E col_index \in Index : ExtractColumn(col_index)
    \/ ApplySoftmaxToVector
    \/ \E axis \in Axes : ApplySoftmaxBatch(axis)
    \/ \E row_index \in Index : InsertRow(row_index)
    \/ \E col_index \in Index : InsertColumn(col_index)

Spec == Init /\ [][Next]_vars

(* ==================== a call, iteration by iteration =================== *)
(* The position of one engine call in its code: a frame per active call,   *)
(* the innermost last. A frame holds the function, the position in it, the *)
(* loop counters, the dimensions the loops run to, the argument that       *)
(* selects a branch, the value the last callee returned and the result     *)
(* matrix kept across calls. Only the control flow is followed: the bodies *)
(* store into cells, never into a dimension or a counter.                  *)
Frame(fn, rows, cols, arg) ==
    [fn |-> fn, pc |-> "entry", i |-> 0, j |-> 0, rows |-> rows, cols |-> cols,
     arg |-> arg, r |-> "none", result |-> "none"]

Top == stack[Len(stack)]

others == <<heap, slot, out, fill, phase, last, pc, total_failures, part_failures,
            test_matrix, sigmoid_result, tanh_result, sigmoid_deriv_result,
            tanh_deriv_result, reported>>

(* the innermost call moves on to frame f *)
Goes(f) ==
    /\ stack' = [stack EXCEPT ![Len(stack)] = f]
    /\ UNCHANGED others

(* the innermost call, left at f, calls callee *)
Calls(f, callee) ==
    /\ stack' = Append([stack EXCEPT ![Len(stack)] = f], callee)
    /\ UNCHANGED others

(* RETURN v: the frame goes and the caller receives v; the outermost frame *)
(* stays as the record of the finished call                                *)
Leaves(v) ==
    /\ stack' = IF Len(stack) = 1
                THEN <<[Top EXCEPT !.pc = "returned", !.r = v]>>
                ELSE [SubSeq(stack, 1, Len(stack) - 1)
                          EXCEPT ![Len(stack) - 1].r = v]
    /\ UNCHANGED others

(* an access through NULL: the program is outside defined behaviour *)
Faults ==
    /\ stack' = [stack EXCEPT ![Len(stack)].pc = "fault"]
    /\ UNCHANGED others

(* a loop body that leaves its counter as it is *)
AdvanceStuck(f) == f

(* the end of a loop body: the counter goes up by one *)
Advance(f) == [f EXCEPT !.i = @ + 1]

(* the function fn is executing *)
In(fn) == stack # <<>> /\ Top.fn = fn /\ Top.pc \notin {"returned", "fault"}

(* create_matrix: validation, the three kinds of malloc (each may fail),   *)
(* the cleanup loop over the rows already allocated, the zero fill         *)
create_matrix_Step ==
    /\ In("create_matrix")
    /\ \/ /\ Top.pc = "entry"
          /\ IF Top.rows <= 0 \/ Top.cols <= 0 \/ Top.rows * Top.cols > IntMax
             THEN Leaves("null")
             ELSE Leaves("null") \/ Goes([Top EXCEPT !.pc = "array"])
       \/ /\ Top.pc = "array"
          /\ Leaves("null") \/ Goes([Top EXCEPT !.pc = "rows", !.i = 0])
       \/ /\ Top.pc = "rows"
          /\ IF Top.i >= Top.rows
             THEN Goes([Top EXCEPT !.pc = "zero", !.i = 0, !.j = 0])
             ELSE Goes(Advance(Top)) \/ Goes([Top EXCEPT !.pc = "cleanup", !.j = 0])
       \/ /\ Top.pc = "cleanup"
          /\ IF Top.j >= Top.i THEN Leaves("null")
             ELSE Goes([Top EXCEPT !.j = @ + 1])
       \/ /\ Top.pc = "zero"
          /\ IF Top.i >= Top.rows THEN Leaves("ptr")
             ELSE IF Top.j >= Top.cols THEN Goes([Advance(Top) EXCEPT !.j = 0])
             ELSE Goes([Top EXCEPT !.j = @ + 1])

(* free_matrix: the NULL test, the loop over the rows, the two last frees *)
free_matrix_Step ==
    /\ In("free_matrix")
    /\ \/ /\ Top.pc = "entry"
          /\ IF Top.arg = "null" THEN Leaves("none")
             ELSE Goes([Top EXCEPT !.pc = "rows", !.i = 0])
       \/ /\ Top.pc = "rows"
          /\ IF Top.i >= Top.rows THEN Leaves("none") ELSE Goes(Advance(Top))

(* the operations that fill a new matrix cell by cell; only the mapper     *)
(* tests the value create_matrix returned                                  *)
CellwiseOps == {"apply_function_elementwise", "hadamard_product", "clip_matrix"}

CellwiseStep ==
    /\ \E fn \in CellwiseOps : In(fn)
    /\ \/ /\ Top.pc = "entry"
          /\ Calls([Top EXCEPT !.pc = "created"],
                   Frame("create_matrix", Top.rows, Top.cols, ""))
       \/ /\ Top.pc = "created"
          /\ IF Top.r # "null" THEN Goes([Top EXCEPT !.pc = "loop", !.i = 0, !.j = 0])
             ELSE IF Top.fn = "apply_function_elementwise" THEN Leaves("null")
             ELSE Faults
       \/ /\ Top.pc = "loop"
          /\ IF Top.i >= Top.rows THEN Leaves("ptr")
             ELSE IF Top.j >= Top.cols THEN Goes([Advance(Top) EXCEPT !.j = 0])
             ELSE Goes([Top EXCEPT !.j = @ + 1])

(* extract_row and extract_column: a new vector, then one loop *)
ExtractStep ==
    /\ In("extract_row") \/ In("extract_column")
    /\ \/ /\ Top.pc = "entry"
          /\ Calls([Top EXCEPT !.pc = "created"],
                   IF Top.fn = "extract_row"
                   THEN Frame("create_matrix", 1, Top.cols, "")
                   ELSE Frame("create_matrix", Top.rows, 1, ""))
       \/ /\ Top.pc = "created"
          /\ IF Top.r = "null" THEN Faults
             ELSE Goes([Top EXCEPT !.pc = "loop", !.i = 0])
       \/ /\ Top.pc = "loop"
          /\ IF Top.i >= (IF Top.fn = "extract_row" THEN Top.cols ELSE Top.rows)
             THEN Leaves("ptr")
             ELSE Goes(Advance(Top))

(* insert_row and insert_column: one loop over the destination *)
InsertStep ==
    /\ In("insert_row") \/ In("insert_column")
    /\ \/ /\ Top.pc = "entry"
          /\ Goes([Top EXCEPT !.pc = "loop", !.i = 0])
       \/ /\ Top.pc = "loop"
          /\ IF Top.i >= (IF Top.fn = "insert_row" THEN Top.cols ELSE Top.rows)
             THEN Leaves("none")
             ELSE Goes(Advance(Top))

(* apply_softmax_to_vector: the vector test, the new matrix, three loops   *)
(* to length; the third stores through the result                          *)
SoftmaxVectorStep ==
    /\ In("apply_softmax_to_vector")
    /\ \/ /\ Top.pc = "entry"
          /\ IF Top.rows # 1 /\ Top.cols # 1 THEN Leaves("null")
             ELSE Calls([Top EXCEPT !.pc = "created"],
                        Frame("create_matrix", Top.rows, Top.cols, ""))
       \/ /\ Top.pc = "created"
          /\ Goes([Top EXCEPT !.pc = "max", !.i = 0, !.result = Top.r])
       \/ /\ Top.pc = "max"
          /\ IF Top.i >= MAX(Top.rows, Top.cols)
             THEN Goes([Top EXCEPT !.pc = "sum", !.i = 0])
             ELSE Goes(Advance(Top))
       \/ /\ Top.pc = "sum"
          /\ IF Top.i >= MAX(Top.rows, Top.cols)
             THEN Goes([Top EXCEPT !.pc = "quotients", !.i = 0])
             ELSE Goes(Advance(Top))
       \/ /\ Top.pc = "quotients"
          /\ IF Top.i >= MAX(Top.rows, Top.cols) THEN Leaves(Top.result)
             ELSE IF Top.result = "null" THEN Faults
             ELSE Goes(Advance(Top))

(* apply_softmax_batch: the new matrix, then per row (axis 1) or column    *)
(* the five calls of the loop body; no returned value is tested            *)
SoftmaxBatchStep ==
    /\ In("apply_softmax_batch")
    /\ \/ /\ Top.pc = "entry"
          /\ Calls([Top EXCEPT !.pc = "created"],
                   Frame("create_matrix", Top.rows, Top.cols, ""))
       \/ /\ Top.pc = "created"
          /\ Goes([Top EXCEPT !.pc = "loop", !.i = 0, !.result = Top.r])
       \/ /\ Top.pc = "loop"
          /\ IF Top.i >= (IF Top.arg = 1 THEN Top.rows ELSE Top.cols)
             THEN Leaves(Top.result)
             ELSE Calls([Top EXCEPT !.pc = "extracted"],
                        Frame(IF Top.arg = 1 THEN "extract_row" ELSE "extract_column",
                              Top.rows, Top.cols, ""))
       \/ /\ Top.pc = "extracted"
          /\ IF Top.r = "null" THEN Faults
             ELSE Calls([Top EXCEPT !.pc = "softmaxed"],
                        IF Top.arg = 1
                        THEN Frame("apply_softmax_to_vector", 1, Top.cols, "")
                        ELSE Frame("apply_softmax_to_vector", Top.rows, 1, ""))
       \/ /\ Top.pc = "softmaxed"
          /\ IF Top.r = "null" \/ Top.result = "null" THEN Faults
             ELSE Calls([Top EXCEPT !.pc = "inserted"],
                        Frame(IF Top.arg = 1 THEN "insert_row" ELSE "insert_column",
                              Top.rows, Top.cols, ""))
       \/ /\ Top.pc = "inserted"
          /\ Calls([Top EXCEPT !.pc = "first_freed"],
                   IF Top.arg = 1 THEN Frame("free_matrix", 1, Top.cols, "")
                   ELSE Frame("free_matrix", Top.rows, 1, ""))
       \/ /\ Top.pc = "first_freed"
          /\ Calls([Top EXCEPT !.pc = "second_freed"],
                   IF Top.arg = 1 THEN Frame("free_matrix", 1, Top.cols, "")
                   ELSE Frame("free_matrix", Top.rows, 1, ""))
       \/ /\ Top.pc = "second_freed"
          /\ Goes([Advance(Top) EXCEPT !.pc = "loop"])

(* the calls followed: every operation on every matrix within the bounds,  *)
(* create_matrix with every requested size, free_matrix also with NULL     *)
StepCalls ==
    {Frame(fn, rows, cols, "") :
        fn \in CellwiseOps \cup {"extract_row", "extract_column", "insert_row",
                                 "insert_column", "apply_softmax_to_vector"},
        rows \in Dims, cols \in Dims}
    \cup {Frame("create_matrix", rows, cols, "") : rows \in AskDims, cols \in AskDims}
    \cup {Frame("free_matrix", rows, cols, arg) :
             rows \in Dims, cols \in Dims, arg \in {"", "null"}}
    \cup {Frame("apply_softmax_batch", rows, cols, axis) :
             rows \in Dims, cols \in Dims, axis \in Axes}

StepInit ==
    /\ stack \in {<<f>> : f \in StepCalls}
    /\ heap = EmptyHeap
    /\ slot = [s \in Slots |-> NULL]
    /\ out = NULL
    /\ fill = [s \in Slots |-> 0]
    /\ phase = "setup"
    /\ last = [op |-> "start", in1 |-> NULL, in2 |-> NULL, a1 |-> 0, a2 |-> 0,
               f |-> "", ret |-> NULL, log |-> <<>>, fault |-> "none",
               halted |-> FALSE, failAt |-> 0, nmalloc |-> 0, ncalls |-> 0,
               pre |-> EmptyHeap]
    /\ pc = "idle" /\ total_failures = 0 /\ part_failures = 0
    /\ test_matrix = UNINIT /\ sigmoid_result = UNINIT /\ tanh_result = UNINIT
    /\ sigmoid_deriv_result = UNINIT /\ tanh_deriv_result = UNINIT
    /\ reported = <<>>

StepNext ==
    \/ create_matrix_Step
    \/ free_matrix_Step
    \/ CellwiseStep
    \/ ExtractStep
    \/ InsertStep
    \/ SoftmaxVectorStep
    \/ SoftmaxBatchStep

(* single-threaded and synchronous: a call that can take a step takes it *)
StepSpec == StepInit /\ [][StepNext]_vars /\ WF_vars(StepNext)

(* ========================= main_test_runner ============================ *)
(* the largest number of failures one of the scalar suites reports *)
MaxFailures == 1
(* test_matrix_operations works on a 3x3 matrix *)
TestDim == 3
(* STEP 2: the values stored, row by row *)
TestValues == <<Rat(-2), Rat(-1), Rat(0), Rat(1), Rat(2), Rat(3),
                Norm(-1, 2), Norm(1, 2), Norm(3, 2)>>

RECURSIVE FillTestValues(_, _, _)
FillTestValues(st, m, k) ==
    IF st.halted \/ k > Len(TestValues) THEN st
    ELSE FillTestValues(StoreElem(st, m, (k - 1) \div TestDim, (k - 1) % TestDim,
                                  TestValues[k]),
                        m, k + 1)

(* the handles of test_matrix_operations are declared without a value *)
RunnerInit ==
    /\ heap = EmptyHeap
    /\ slot = [s \in Slots |-> NULL]
    /\ out = NULL
    /\ fill = [s \in Slots |-> 0]
    /\ phase = "setup"
    /\ last = [op |-> "start", in1 |-> NULL, in2 |-> NULL, a1 |-> 0, a2 |-> 0,
               f |-> "", ret |-> NULL, log |-> <<>>, fault |-> "none",
               halted |-> FALSE, failAt |-> 0, nmalloc |-> 0, ncalls |-> 0,
               pre |-> EmptyHeap]
    /\ pc = "PART1_sigmoid" /\ total_failures = 0 /\ part_failures = 0
    /\ test_matrix = UNINIT /\ sigmoid_result = UNINIT /\ tanh_result = UNINIT
    /\ sigmoid_deriv_result = UNINIT /\ tanh_deriv_result = UNINIT
    /\ reported = <<>> /\ stack = <<>>

handles == <<test_matrix, sigmoid_result, tanh_result,
             sigmoid_deriv_result, tanh_deriv_result>>
idle == <<slot, out, fill, phase, stack>>

(* part_failures = <suite>(); total_failures = total_failures + part_failures *)
SuiteReturns(n, next) ==
    /\ part_failures' = n
    /\ total_failures' = total_failures + n
    /\ reported' = Append(reported, n)
    /\ pc' = next

(* a scalar suite returns its count of failed tests *)
ScalarSuite(at, next) ==
    /\ pc = at
    /\ \E n \in 0..MaxFailures : SuiteReturns(n, next)
    /\ UNCHANGED <<heap, last, handles, idle>>

TestSigmoidBasic == ScalarSuite("PART1_sigmoid", "PART1_tanh")
TestTanhBasic == ScalarSuite("PART1_tanh", "PART2")
(* PART 2, then PART 3 enters test_matrix_operations *)
TestAllDerivatives == ScalarSuite("PART2", "STEP1")

(* ----------------------- test_matrix_operations ------------------------ *)
(* STEP 1: test_matrix = create_matrix(3, 3); on NULL: RETURN -1 *)
Step1CreateTestMatrix ==
    /\ pc = "STEP1"
    /\ \E st \in Outcomes(LAMBDA s0 : create_matrix(s0, TestDim, TestDim)) :
          /\ heap' = st.heap
          /\ test_matrix' = st.r
          /\ last' = Record("create_matrix", NULL, NULL, TestDim, TestDim, "", st)
          /\ pc' = IF st.halted THEN "crashed"
                   ELSE IF st.r = NULL THEN "STEP1_return" ELSE "STEP2"
    /\ UNCHANGED <<total_failures, part_failures, reported, idle,
                   sigmoid_result, tanh_result, sigmoid_deriv_result,
                   tanh_deriv_result>>

(* STEP 2: the nine stores *)
Step2FillTestValues ==
    /\ pc = "STEP2"
    /\ heap' = FillTestValues(NewSt(heap, 0, "trap", 0), test_matrix, 1).heap
    /\ pc' = "STEP3"
    /\ UNCHANGED <<last, total_failures, part_failures, reported, handles, idle>>

(* STEP 3: sigmoid_result = apply_sigmoid_to_matrix(test_matrix) *)
Step3Sigmoid ==
    /\ pc = "STEP3"
    /\ \E st \in Outcomes(LAMBDA s0 : apply_sigmoid_to_matrix(s0, test_matrix)) :
          /\ heap' = st.heap
          /\ sigmoid_result' = st.r
          /\ last' = Record("apply_function_elementwise", test_matrix, NULL, 0, 0,
                            "sigmoid", st)
          /\ pc' = IF st.halted THEN "crashed"
                   ELSE IF st.r = NULL THEN "STEP3_free" ELSE "STEP4"
    /\ UNCHANGED <<total_failures, part_failures, reported, idle,
                   test_matrix, tanh_result, sigmoid_deriv_result,
                   tanh_deriv_result>>

(* STEP 4: tanh_result = apply_tanh_to_matrix(test_matrix) *)
Step4Tanh ==
    /\ pc = "STEP4"
    /\ \E st \in Outcomes(LAMBDA s0 : apply_tanh_to_matrix(s0, test_matrix)) :
          /\ heap' = st.heap
          /\ tanh_result' = st.r
          /\ last' = Record("apply_function_elementwise", test_matrix, NULL, 0, 0,
                            "tanh_activation", st)
          /\ pc' = IF st.halted THEN "crashed"
                   ELSE IF st.r = NULL THEN "STEP4_free1" ELSE "STEP5a"
    /\ UNCHANGED <<total_failures, part_failures, reported, idle,
                   test_matrix, sigmoid_result, sigmoid_deriv_result,
                   tanh_deriv_result>>

(* SUBSTEP 5a: on NULL: GOTO cleanup *)
Step5aSigmoidDerivative ==
    /\ pc = "STEP5a"
    /\ \E st \in Outcomes(LAMBDA s0 :
                             apply_sigmoid_derivative_to_matrix(s0, test_matrix)) :
          /\ heap' = st.heap
          /\ sigmoid_deriv_result' = st.r
          /\ last' = Record("apply_function_elementwise", test_matrix, NULL, 0, 0,
                            "sigmoid_derivative", st)
          /\ pc' = IF st.halted THEN "crashed"
                   ELSE IF st.r = NULL THEN "cleanup_1" ELSE "STEP5b"
    /\ UNCHANGED <<total_failures, part_failures, reported, idle,
                   test_matrix, sigmoid_result, tanh_result, tanh_deriv_result>>

(* SUBSTEP 5b: on NULL: GOTO cleanup; otherwise the checks fall into STEP 6 *)
Step5bTanhDerivative ==
    /\ pc = "STEP5b"
    /\ \E st \in Outcomes(LAMBDA s0 :
                             apply_tanh_derivative_to_matrix(s0, test_matrix)) :
          /\ heap' = st.heap
          /\ tanh_deriv_result' = st.r
          /\ last' = Record("apply_function_elementwise", test_matrix, NULL, 0, 0,
                            "tanh_derivative", st)
          /\ pc' = IF st.halted THEN "crashed" ELSE "cleanup_1"
    /\ UNCHANGED <<total_failures, part_failures, reported, idle,
                   test_matrix, sigmoid_result, tanh_result, sigmoid_deriv_result>>

(* the places where free_matrix is called *)
FreeSites == {"STEP3_free", "STEP4_free1", "STEP4_free2",
              "cleanup_1", "cleanup_2", "cleanup_3", "cleanup_4", "cleanup_5"}

(* the handle passed at each of them *)
HandleAt(site) ==
    CASE site \in {"STEP3_free", "STEP4_free1", "cleanup_1"} -> test_matrix
      [] site \in {"STEP4_free2", "cleanup_2"} -> sigmoid_result
      [] site = "cleanup_3" -> tanh_result
      [] site = "cleanup_4" -> sigmoid_deriv_result
      [] OTHER -> tanh_deriv_result

(* and where the code goes on *)
AfterFree(site) ==
    CASE site = "STEP3_free" -> "STEP3_return"
      [] site = "STEP4_free1" -> "STEP4_free2"
      [] site = "STEP4_free2" -> "STEP4_return"
      [] site = "cleanup_1" -> "cleanup_2"
      [] site = "cleanup_2" -> "cleanup_3"
      [] site = "cleanup_3" -> "cleanup_4"
      [] site = "cleanup_4" -> "cleanup_5"
      [] OTHER -> "RETURN"

(* what the read of a handle yields: a handle never assigned holds an     *)
(* indeterminate value, NULL or a wild address                            *)
ValuesOf(h) == IF h = UNINIT THEN {NULL, UNINIT} ELSE {h}

(* free_matrix(<handle>) of the error paths and of STEP 6 *)
FreeMatrixAt ==
    /\ pc \in FreeSites
    /\ \E v \in ValuesOf(HandleAt(pc)) :
          \E st \in Outcomes(LAMBDA s0 : free_matrix(s0, v)) :
             /\ heap' = st.heap
             /\ last' = Record("free_matrix", v, NULL, 0, 0, "", Ret(st, NULL))
             /\ pc' = IF st.halted THEN "crashed" ELSE AfterFree(pc)
    /\ UNCHANGED <<total_failures, part_failures, reported, handles, idle>>

(* RETURN -1 of STEP 1, STEP 3 and STEP 4, back in PART 3 of the runner *)
ReturnMinusOne ==
    /\ pc \in {"STEP1_return", "STEP3_return", "STEP4_return"}
    /\ SuiteReturns(-1, "FINAL")
    /\ UNCHANGED <<heap, last, handles, idle>>

(* RETURN 0 or RETURN 1: "all tests passed" is no variable of the listing, *)
(* and all_positive is unset on the GOTO paths                             *)
ReturnVerdict ==
    /\ pc = "RETURN"
    /\ \E n \in {0, 1} : SuiteReturns(n, "FINAL")
    /\ UNCHANGED <<heap, last, handles, idle>>

(* FINAL SUMMARY: RETURN total_failures *)
FinalSummary ==
    /\ pc = "FINAL"
    /\ pc' = "exit"
    /\ UNCHANGED <<heap, last, total_failures, part_failures, reported,
                   handles, idle>>

RunnerNext ==
    \/ TestSigmoidBasic
    \/ TestTanhBasic
    \/ TestAllDerivatives
    \/ Step1CreateTestMatrix
    \/ Step2FillTestValues
    \/ Step3Sigmoid
    \/ Step4Tanh
    \/ Step5aSigmoidDerivative
    \/ Step5bTanhDerivative
    \/ FreeMatrixAt
    \/ ReturnMinusOne
    \/ ReturnVerdict
    \/ FinalSummary

RunnerSpec == RunnerInit /\ [][RunnerNext]_vars
(* ====================== vocabulary of the properties =================== *)
Mallocs(log) == {log[k][2] : k \in {n \in DOMAIN log : log[n][1] = "malloc"}}
Frees(log) == {log[k][2] : k \in {n \in DOMAIN log : log[n][1] = "free"}}
NumFrees(log, a) == Cardinality({k \in DOMAIN log : log[k] = <<"free", a>>})

(* block a was obtained in the call and given back exactly once, later *)
FreedOnce(log, a) ==
    /\ NumFrees(log, a) = 1
    /\ \E k \in DOMAIN log, n \in DOMAIN log :
          k < n /\ log[k] = <<"malloc", a>> /\ log[n] = <<"free", a>>

(* the structure m with its row-pointer array and all its row buffers *)
WellFormed(h, m) ==
    /\ m \in DOMAIN h /\ h[m].kind = "Matrix"
    /\ h[m].rows >= 1 /\ h[m].cols >= 1
    /\ h[m].data # NULL /\ h[m].data \in DOMAIN h
    /\ h[h[m].data].kind = "rowptrs"
    /\ DOMAIN h[h[m].data].p = 0..(h[m].rows - 1)
    /\ \A i \in 0..(h[m].rows - 1) :
          LET rp == h[h[m].data].p[i]
          IN /\ rp \in DOMAIN h /\ h[rp].kind = "row"
             /\ DOMAIN h[rp].v = 0..(h[m].cols - 1)
             /\ \A k \in 0..(h[m].rows - 1) : k # i => h[h[m].data].p[k] # rp

Elem(h, m, i, j) == h[h[h[m].data].p[i]].v[j]

Populated(h, m) ==
    /\ WellFormed(h, m)
    /\ \A i \in 0..(h[m].rows - 1), j \in 0..(h[m].cols - 1) : Elem(h, m, i, j) # NoVal

BlocksOf(h, m) ==
    IF m = NULL THEN {}
    ELSE {m, h[m].data} \cup {h[h[m].data].p[i] : i \in 0..(h[m].rows - 1)}

MallocFailed == last.failAt >= 1

ReturningOps ==
    {"create_matrix", "apply_function_elementwise", "hadamard_product",
     "clip_matrix", "extract_row", "extract_column",
     "apply_softmax_to_vector", "apply_softmax_batch"}

OperandsPresent ==
    /\ last.op # "create_matrix" => last.in1 # NULL
    /\ last.op = "hadamard_product" => last.in2 # NULL

(* C2: every engine operation that returns a matrix, under every pattern   *)
(* of allocation failures, makes no access through a NULL matrix and ends  *)
(* by returning either NULL or a fully populated matrix.                   *)
C2_ResultOrError ==
    (last.op \in ReturningOps /\ OperandsPresent) =>
        /\ last.fault = "none"
        /\ last.ret = NULL \/ Populated(heap, last.ret)

(* ============================== C3 ===================================== *)
(* C3: apply_softmax_batch returns, on success and on failure alike, with  *)
(* every temporary vector released exactly once: the blocks of the result  *)
(* are the only ones of the call still allocated, and after a failed       *)
(* allocation there is no result and nothing is left allocated.            *)
C3_BatchReleasesTemporaries ==
    (last.op = "apply_softmax_batch" /\ last.in1 # NULL) =>
        /\ ~last.halted
        /\ MallocFailed => last.ret = NULL
        /\ \A a \in Mallocs(last.log) \ BlocksOf(heap, last.ret) :
              FreedOnce(last.log, a)
        /\ DOMAIN heap = DOMAIN last.pre \cup BlocksOf(heap, last.ret)

(* ============================== C4 ===================================== *)
(* C4: a free_matrix that immediately follows the create_matrix(r, c) that *)
(* made its argument frees exactly the blocks that create obtained (the r  *)
(* row buffers, the row-pointer array, the structure), each once, and      *)
(* leaves the heap as it was before the create -- however often repeated.  *)
C4_RoundTrip ==
    (last.op = "create_matrix" /\ last.ret # NULL
        /\ last'.op = "free_matrix" /\ last'.in1 = last.ret) =>
        /\ last'.fault = "none"
        /\ Frees(last'.log) = Mallocs(last.log)
        /\ Len(last'.log) = last.a1 + 2
        /\ Mallocs(last'.log) = {}
        /\ heap' = last.pre

C4_CreateThenFreeRoundTrip == [][C4_RoundTrip]_vars

(* a matrix of MaxDim rows has just been freed while another is still held *)
C4_Witness ==
    /\ last.op = "free_matrix" /\ last.in1 # NULL
    /\ Len(last.log) = MaxDim + 2
    /\ slot["A"] # NULL

C6_CreatedMatrixIsZero ==
    (last.op = "create_matrix" /\ last.a1 >= 1 /\ last.a2 >= 1 /\ ~MallocFailed) =>
        /\ last.ret # NULL
        /\ WellFormed(heap, last.ret)
        /\ heap[last.ret].rows = last.a1 /\ heap[last.ret].cols = last.a2
        /\ \A i \in 0..(last.a1 - 1), j \in 0..(last.a2 - 1) :
              Elem(heap, last.ret, i, j) = Rat(0)

C6_Witness ==
    /\ last.op = "create_matrix" /\ last.ret # NULL
    /\ last.a1 = MaxDim /\ last.a2 = MaxDim

MapperOps ==
    {"apply_function_elementwise", "apply_sigmoid_to_matrix",
     "apply_tanh_to_matrix", "apply_sigmoid_derivative_to_matrix",
     "apply_tanh_derivative_to_matrix"}

(* the scalar function a mapper call stands for *)
Expected(x) ==
    CASE last.op = "apply_sigmoid_to_matrix" -> sigmoid(x)
      [] last.op = "apply_tanh_to_matrix" -> tanh_activation(x)
      [] last.op = "apply_sigmoid_derivative_to_matrix" -> sigmoid_derivative(x)
      [] last.op = "apply_tanh_derivative_to_matrix" -> tanh_derivative(x)
      [] OTHER -> CallFn(last.f, x)

(* C8: called with a matrix and a function, the mapper (and each wrapper,  *)
(* with its own scalar function) returns a new matrix of the input's shape *)
(* with output[i][j] = f(input[i][j]) in every cell; with the identity the *)
(* output equals the input.                                                *)
C8_MapAppliesFunctionCellwise ==
    (last.op \in MapperOps /\ last.in1 # NULL /\ last.f # NULLFN
        /\ ~MallocFailed) =>
        /\ last.ret # NULL /\ last.ret \notin DOMAIN last.pre
        /\ last.fault = "none"
        /\ WellFormed(heap, last.ret)
        /\ heap[last.ret].rows = last.pre[last.in1].rows
        /\ heap[last.ret].cols = last.pre[last.in1].cols
        /\ \A i \in 0..(last.pre[last.in1].rows - 1),
              j \in 0..(last.pre[last.in1].cols - 1) :
              /\ Elem(heap, last.ret, i, j) = Expected(Elem(last.pre, last.in1, i, j))
              /\ last.f = "identity" =>
                    Elem(heap, last.ret, i, j) = Elem(last.pre, last.in1, i, j)

(* sigmoid mapped over a 2-column matrix whose first row is (1, -1) *)
C8_Witness ==
    /\ last.op = "apply_sigmoid_to_matrix" /\ last.ret # NULL
    /\ heap[last.in1].cols = 2
    /\ Elem(heap, last.in1, 0, 0) = Rat(1) /\ Elem(heap, last.in1, 0, 1) = Rat(-1)
    /\ Elem(heap, last.ret, 0, 0) = <<2, 3>> /\ Elem(heap, last.ret, 0, 1) = <<1, 3>>

(* ============================== C9 ===================================== *)
NonDestructiveOps ==
    MapperOps \cup {"hadamard_product", "clip_matrix",
                    "apply_softmax_to_vector", "apply_softmax_batch"}

(* C9: the mapper, hadamard_product, clip_matrix, apply_softmax_to_vector  *)
(* and apply_softmax_batch leave every block that existed before the call  *)
(* -- the dimensions and every element of their arguments -- as it was,    *)
(* whether the call succeeds, fails or is cut short.                       *)
C9_InputsUnmodified ==
    last.op \in NonDestructiveOps =>
        \A a \in DOMAIN last.pre : a \in DOMAIN heap /\ heap[a] = last.pre[a]

(* a clip that changed a value in its result, so that input and output differ *)
C9_Witness ==
    /\ last.op = "clip_matrix" /\ last.ret # NULL /\ last.in1 # NULL
    /\ Elem(heap, last.in1, 0, 0) = Rat(1)
    /\ Elem(heap, last.ret, 0, 0) = Rat(0)

(* ============================== C10 ==================================== *)
(* C10: the mapper called with a NULL input matrix returns NULL, without   *)
(* allocating anything and without calling the supplied function.          *)
C10_NullInputRejected ==
    (last.op \in MapperOps /\ last.in1 = NULL) =>
        /\ last.ret = NULL
        /\ last.fault = "none"
        /\ last.nmalloc = 0 /\ last.log = <<>>
        /\ last.ncalls = 0
        /\ heap = last.pre

C10_Witness ==
    /\ last.op = "apply_function_elementwise" /\ last.in1 = NULL
    /\ last.f = "identity" /\ out = NULL /\ phase = "cleanup"

SameShape ==
    /\ last.pre[last.in1].rows = last.pre[last.in2].rows
    /\ last.pre[last.in1].cols = last.pre[last.in2].cols

(* C12: hadamard_product(A, B) with A.rows # B.rows or A.cols # B.cols     *)
(* returns NULL and allocates no output matrix.                            *)
C12_ShapeMismatchRejected ==
    (last.op = "hadamard_product" /\ last.in1 # NULL /\ last.in2 # NULL
        /\ ~SameShape) =>
        /\ last.ret = NULL
        /\ last.fault = "none"
        /\ last.nmalloc = 0 /\ last.log = <<>>
        /\ heap = last.pre

(* the operands agree in their rows and differ in their columns *)
C12_Witness ==
    /\ last.op = "hadamard_product" /\ last.in1 # NULL /\ last.in2 # NULL
    /\ heap[last.in1].rows = heap[last.in2].rows
    /\ heap[last.in1].cols # heap[last.in2].cols
    /\ out = NULL

(* ============================== C13 ==================================== *)
(* C13: for A and B of equal shape, and no allocation failing,             *)
(* hadamard_product(A, B) returns a new matrix of that shape with          *)
(* output[i][j] = A[i][j] * B[i][j] in every cell.                         *)
C13_HadamardIsCellwiseProduct ==
    (last.op = "hadamard_product" /\ last.in1 # NULL /\ last.in2 # NULL
        /\ SameShape /\ ~MallocFailed) =>
        /\ last.ret # NULL /\ last.ret \notin DOMAIN last.pre
        /\ last.fault = "none"
        /\ WellFormed(heap, last.ret)
        /\ heap[last.ret].rows = last.pre[last.in1].rows
        /\ heap[last.ret].cols = last.pre[last.in1].cols
        /\ \A i \in 0..(last.pre[last.in1].rows - 1),
              j \in 0..(last.pre[last.in1].cols - 1) :
              Elem(heap, last.ret, i, j)
                  = RMul(Elem(last.pre, last.in1, i, j),
                         Elem(last.pre, last.in2, i, j))

(* 1 * -1 = -1 in the first cell of a matrix of MaxDim columns *)
C13_Witness ==
    /\ last.op = "hadamard_product" /\ last.ret # NULL
    /\ last.in1 # NULL /\ last.in2 # NULL
    /\ heap[last.in1].cols = MaxDim
    /\ Elem(heap, last.in1, 0, 0) = Rat(1)
    /\ Elem(heap, last.in2, 0, 0) = Rat(-1)
    /\ Elem(heap, last.ret, 0, 0) = Rat(-1)

(* ============================== C14 ==================================== *)
RMin(x, y) == IF RLt(y, x) THEN y ELSE x
RMax(x, y) == IF RLt(x, y) THEN y ELSE x

(* C14: for bounds lo <= hi, and no allocation failing, clip_matrix(m, lo, *)
(* hi) returns a new matrix of m's shape with output[i][j] = min(hi,       *)
(* max(lo, m[i][j])) in every cell: every output lies in [lo, hi], and an  *)
(* input already in [lo, hi] is passed through unchanged.                  *)
C14_ClipClampsEveryCell ==
    (last.op = "clip_matrix" /\ last.in1 # NULL /\ last.a1 <= last.a2
        /\ ~MallocFailed) =>
        /\ last.ret # NULL /\ last.ret \notin DOMAIN last.pre
        /\ last.fault = "none"
        /\ WellFormed(heap, last.ret)
        /\ heap[last.ret].rows = last.pre[last.in1].rows
        /\ heap[last.ret].cols = last.pre[last.in1].cols
        /\ \A i \in 0..(last.pre[last.in1].rows - 1),
              j \in 0..(last.pre[last.in1].cols - 1) :
              LET x == Elem(last.pre, last.in1, i, j)
                  y == Elem(heap, last.ret, i, j)
              IN /\ y = RMin(Rat(last.a2), RMax(Rat(last.a1), x))
                 /\ RLe(Rat(last.a1), y) /\ RLe(y, Rat(last.a2))
                 /\ (RLe(Rat(last.a1), x) /\ RLe(x, Rat(last.a2))) => y = x

(* clip to [-MaxVal, 0]: MaxVal is cut down to 0, -MaxVal is kept *)
C14_Witness ==
    /\ last.op = "clip_matrix" /\ last.ret # NULL /\ last.in1 # NULL
    /\ last.a1 = -MaxVal /\ last.a2 = 0
    /\ heap[last.in1].cols >= 2
    /\ Elem(heap, last.in1, 0, 0) = Rat(MaxVal)
    /\ Elem(heap, last.in1, 0, 1) = Rat(-MaxVal)
    /\ Elem(heap, last.ret, 0, 0) = Rat(0)
    /\ Elem(heap, last.ret, 0, 1) = Rat(-MaxVal)

(* ============================== C15 ==================================== *)
IsVector(h, m) == h[m].rows = 1 \/ h[m].cols = 1

(* C15: apply_softmax_to_vector refuses its input, returning NULL and      *)
(* allocating nothing, exactly when rows != 1 and cols != 1; every 1xN and *)
(* every Nx1 input is accepted (a result of the input's shape comes back   *)
(* when no allocation fails), and the result of a 1x1 input is the single  *)
(* value exp(0) / exp(0) = 1.                                              *)
C15_SoftmaxAcceptsExactlyVectors ==
    (last.op = "apply_softmax_to_vector" /\ last.in1 # NULL) =>
        IF ~IsVector(last.pre, last.in1)
        THEN /\ last.ret = NULL /\ last.fault = "none"
             /\ last.nmalloc = 0 /\ last.log = <<>> /\ heap = last.pre
        ELSE ~MallocFailed =>
             /\ last.ret # NULL /\ last.ret \notin DOMAIN last.pre
             /\ last.fault = "none"
             /\ WellFormed(heap, last.ret)
             /\ heap[last.ret].rows = last.pre[last.in1].rows
             /\ heap[last.ret].cols = last.pre[last.in1].cols
             /\ (last.pre[last.in1].rows = 1 /\ last.pre[last.in1].cols = 1)
                    => Elem(heap, last.ret, 0, 0) = Rat(1)

(* a square matrix of the largest size is refused *)
C15_Witness ==
    /\ last.op = "apply_softmax_to_vector" /\ last.in1 # NULL
    /\ heap[last.in1].rows = MaxDim /\ heap[last.in1].cols = MaxDim
    /\ last.ret = NULL /\ out = NULL

(* ============================== C16 ==================================== *)
MaxShift == 2
(* the constants added: the halves between -MaxShift/2 and MaxShift/2 *)
Shifts == { Norm(c, 2) : c \in (-MaxShift)..MaxShift }

(* heap h with c added to every element of matrix m *)
Shifted(h, m, c) ==
    [a \in DOMAIN h |->
        IF a \in BlocksOf(h, m) /\ h[a].kind = "row"
        THEN [h[a] EXCEPT !.v = [j \in DOMAIN h[a].v |-> RAdd(h[a].v[j], c)]]
        ELSE h[a]]

(* the call apply_softmax_to_vector(m) made on heap h, no allocation failing *)
SoftmaxOf(h, m) == apply_softmax_to_vector(NewSt(h, 0, "trap", 0), m)

(* the run t has returned a vector equal, cell by cell, to the last result *)
AgreesWithLast(t) ==
    /\ t.r # NULL /\ t.fault = "none"
    /\ t.heap[t.r].rows = heap[last.ret].rows
    /\ t.heap[t.r].cols = heap[last.ret].cols
    /\ \A i \in 0..(heap[last.ret].rows - 1), j \in 0..(heap[last.ret].cols - 1) :
          Elem(t.heap, t.r, i, j) = Elem(heap, last.ret, i, j)

(* C16: apply_softmax_to_vector is shift invariant: for a vector v and a   *)
(* constant c, the vector v + c (c added to every element) yields the same *)
(* output as v, cell by cell.                                              *)
C16_SoftmaxShiftInvariant ==
    (last.op = "apply_softmax_to_vector" /\ last.in1 # NULL
        /\ IsVector(last.pre, last.in1) /\ ~MallocFailed) =>
        \A c \in Shifts :
            AgreesWithLast(SoftmaxOf(Shifted(last.pre, last.in1, c), last.in1))

(* a vector of two different values: the output is (4/5, 1/5) *)
C16_Witness ==
    /\ last.op = "apply_softmax_to_vector" /\ last.ret # NULL /\ last.in1 # NULL
    /\ heap[last.in1].rows = 1 /\ heap[last.in1].cols = 2
    /\ Elem(heap, last.in1, 0, 0) = Rat(MaxVal)
    /\ Elem(heap, last.in1, 0, 1) = Rat(-MaxVal)
    /\ Elem(heap, last.ret, 0, 0) # Elem(heap, last.ret, 0, 1)
    /\ AgreesWithLast(SoftmaxOf(Shifted(heap, last.in1, Rat(1)), last.in1))

(* ============================== C17 ==================================== *)
(* a vector read off heap h: its length and its element i *)
VecLen(h, m) == IF h[m].rows = 1 THEN h[m].cols ELSE h[m].rows
VecAt(h, m, i) == IF h[m].rows = 1 THEN Elem(h, m, 0, i) ELSE Elem(h, m, i, 0)

(* the largest of elements 0..n-1 (n >= 1) *)
RECURSIVE VecMax(_, _, _)
VecMax(h, m, n) ==
    IF n = 1 THEN VecAt(h, m, 0)
    ELSE RMax(VecMax(h, m, n - 1), VecAt(h, m, n - 1))

(* the sum of elements 0..n-1 *)
RECURSIVE VecSum(_, _, _)
VecSum(h, m, n) ==
    IF n = 0 THEN Rat(0) ELSE RAdd(VecSum(h, m, n - 1), VecAt(h, m, n - 1))

(* the sum over 0..n-1 of exp(x_i - mx) *)
RECURSIVE ExpSum(_, _, _, _)
ExpSum(h, m, n, mx) ==
    IF n = 0 THEN Rat(0)
    ELSE RAdd(ExpSum(h, m, n - 1, mx), exp(RSub(VecAt(h, m, n - 1), mx)))

(* C17: the elements of apply_softmax_to_vector(v) sum to 1, and output i  *)
(* is exp(x_i - max) divided by the sum over all k of exp(x_k - max),      *)
(* where max is the largest element of v.                                  *)
C17_SoftmaxSumsToOne ==
    (last.op = "apply_softmax_to_vector" /\ last.in1 # NULL
        /\ IsVector(last.pre, last.in1) /\ ~MallocFailed) =>
        /\ last.ret # NULL
        /\ VecLen(heap, last.ret) = VecLen(last.pre, last.in1)
        /\ VecSum(heap, last.ret, VecLen(heap, last.ret)) = Rat(1)
        /\ \A i \in 0..(VecLen(last.pre, last.in1) - 1) :
              VecAt(heap, last.ret, i) =
                  RDiv(exp(RSub(VecAt(last.pre, last.in1, i),
                                VecMax(last.pre, last.in1, VecLen(last.pre, last.in1)))),
                       ExpSum(last.pre, last.in1, VecLen(last.pre, last.in1),
                              VecMax(last.pre, last.in1, VecLen(last.pre, last.in1))))

(* the column vector (0, 1), whose maximum is not 0: outputs 1/3 and 2/3 *)
C17_Witness ==
    /\ last.op = "apply_softmax_to_vector" /\ last.ret # NULL /\ last.in1 # NULL
    /\ heap[last.in1].rows = 2 /\ heap[last.in1].cols = 1
    /\ Elem(heap, last.in1, 0, 0) = Rat(0)
    /\ Elem(heap, last.in1, 1, 0) = Rat(1)
    /\ Elem(heap, last.ret, 0, 0) = Norm(1, 3)
    /\ Elem(heap, last.ret, 1, 0) = Norm(2, 3)

(* ============================== C18 ==================================== *)
(* apply_softmax_to_vector applied to the vector the run t has returned *)
SoftmaxAfter(t) == apply_softmax_to_vector(t, t.r)

(* apply_softmax_to_vector(extract_row(m, i)), made on heap h *)
RowSoftmax(h, m, i) == SoftmaxAfter(extract_row(NewSt(h, 0, "trap", 0), m, i))

(* apply_softmax_to_vector(extract_column(m, j)), made on heap h *)
ColumnSoftmax(h, m, j) == SoftmaxAfter(extract_column(NewSt(h, 0, "trap", 0), m, j))

(* element k of the vector the run t has returned *)
VecOut(t, k) == VecAt(t.heap, t.r, k)

(* C18: with no allocation failing, apply_softmax_batch(m, 1) (the row     *)
(* axis) returns a new matrix of m's shape whose row i is                  *)
(* apply_softmax_to_vector of row i of m, and apply_softmax_batch(m, 0)    *)
(* (the column axis) one whose column j is apply_softmax_to_vector of      *)
(* column j of m: each output row (column) is a function of the same input *)
(* row (column) alone.                                                     *)
C18_BatchIsSoftmaxPerVector ==
    (last.op = "apply_softmax_batch" /\ last.in1 # NULL /\ last.a1 \in {0, 1}
        /\ ~MallocFailed) =>
        /\ last.ret # NULL /\ last.ret \notin DOMAIN last.pre
        /\ last.fault = "none"
        /\ WellFormed(heap, last.ret)
        /\ heap[last.ret].rows = last.pre[last.in1].rows
        /\ heap[last.ret].cols = last.pre[last.in1].cols
        /\ \A i \in 0..(last.pre[last.in1].rows - 1),
              j \in 0..(last.pre[last.in1].cols - 1) :
              Elem(heap, last.ret, i, j) =
                  IF last.a1 = 1
                  THEN VecOut(RowSoftmax(last.pre, last.in1, i), j)
                  ELSE VecOut(ColumnSoftmax(last.pre, last.in1, j), i)

(* rows (1, 0) and (0, 0) along the row axis: (2/3, 1/3) and (1/2, 1/2) *)
C18_Witness ==
    /\ last.op = "apply_softmax_batch" /\ last.a1 = 1
    /\ last.ret # NULL /\ last.in1 # NULL
    /\ heap[last.in1].rows = 2 /\ heap[last.in1].cols = 2
    /\ Elem(heap, last.in1, 0, 0) = Rat(1)
    /\ Elem(heap, last.ret, 0, 0) = Norm(2, 3)
    /\ Elem(heap, last.ret, 0, 1) = Norm(1, 3)
    /\ Elem(heap, last.ret, 1, 0) = Norm(1, 2)

(* ============================== C19 ==================================== *)
(* C19: within a row processed by apply_softmax_batch(m, 1), with no       *)
(* allocation failing, input[j] >= input[k] implies output[j] >=           *)
(* output[k], so the largest input carries the largest weight; and a row   *)
(* whose N inputs are all equal yields N outputs of 1/N.                   *)
C19_SoftmaxPreservesOrder ==
    (last.op = "apply_softmax_batch" /\ last.in1 # NULL /\ last.a1 = 1
        /\ ~MallocFailed) =>
        /\ last.ret # NULL
        /\ heap[last.ret].rows = last.pre[last.in1].rows
        /\ heap[last.ret].cols = last.pre[last.in1].cols
        /\ \A i \in 0..(last.pre[last.in1].rows - 1) :
              /\ \A j, k \in 0..(last.pre[last.in1].cols - 1) :
                    RLe(Elem(last.pre, last.in1, i, k), Elem(last.pre, last.in1, i, j))
                        => RLe(Elem(heap, last.ret, i, k), Elem(heap, last.ret, i, j))
              /\ (\A j \in 0..(last.pre[last.in1].cols - 1) :
                     Elem(last.pre, last.in1, i, j) = Elem(last.pre, last.in1, i, 0))
                    => \A j \in 0..(last.pre[last.in1].cols - 1) :
                          Elem(heap, last.ret, i, j) = Norm(1, last.pre[last.in1].cols)

(* row (-1, 1) gets the larger weight on the right, row (0, 0) gets halves *)
C19_Witness ==
    /\ last.op = "apply_softmax_batch" /\ last.a1 = 1
    /\ last.ret # NULL /\ last.in1 # NULL
    /\ heap[last.in1].rows = 2 /\ heap[last.in1].cols = 2
    /\ Elem(heap, last.in1, 0, 0) = Rat(-1)
    /\ Elem(heap, last.in1, 0, 1) = Rat(1)
    /\ RLt(Elem(heap, last.ret, 0, 0), Elem(heap, last.ret, 0, 1))
    /\ Elem(heap, last.ret, 1, 0) = Norm(1, 2)
    /\ Elem(heap, last.ret, 1, 1) = Norm(1, 2)

(* ============================== C20 ==================================== *)
(* the source vector does not fit the destination's row (column) *)
InsertMismatch ==
    \/ /\ last.op = "insert_row"
       /\ last.pre[last.in2].cols # last.pre[last.in1].cols
    \/ /\ last.op = "insert_column"
       /\ last.pre[last.in2].rows # last.pre[last.in1].rows

(* C20: insert_row(dest, i, row) with row.cols != dest.cols, and           *)
(* insert_column(dest, j, col) with col.rows != dest.rows, are rejected:   *)
(* dest (and with it the whole heap) is left as it was, and no element     *)
(* outside the bounds of the source vector is read.                        *)
C20_InsertMismatchRejected ==
    (last.op \in {"insert_row", "insert_column"}
        /\ last.in1 # NULL /\ last.in2 # NULL /\ InsertMismatch) =>
        /\ heap = last.pre
        /\ last.fault = "none"

(* ============================== C21 ==================================== *)
(* a copy of matrix m made on heap h: the mapper with the identity; the    *)
(* copy is the value the run returns                                       *)
CopyOf(h, m) == apply_function_elementwise(NewSt(h, 0, "trap", 0), m, "identity")

(* the vector v inserted at index i into the matrix the run t has returned *)
RowPutBack(t, i, v) == insert_row(t, t.r, i, v)
ColumnPutBack(t, j, v) == insert_column(t, t.r, j, v)

(* the matrix the run t has returned equals matrix m of heap h, cell by cell *)
EqualsMatrix(t, h, m) ==
    /\ t.fault = "none" /\ t.r # NULL
    /\ t.heap[t.r].rows = h[m].rows /\ t.heap[t.r].cols = h[m].cols
    /\ \A r \in 0..(h[m].rows - 1), c \in 0..(h[m].cols - 1) :
          Elem(t.heap, t.r, r, c) = Elem(h, m, r, c)

(* C21: with no allocation failing, inserting extract_row(m, i) at index i *)
(* into a copy of m leaves the copy equal to m in every cell, and so does  *)
(* inserting extract_column(m, j) at index j with insert_column.           *)
C21_ExtractInsertRoundTrip ==
    (last.op \in {"extract_row", "extract_column"} /\ last.in1 # NULL
        /\ ~MallocFailed) =>
        /\ last.ret # NULL
        /\ IF last.op = "extract_row"
           THEN EqualsMatrix(RowPutBack(CopyOf(heap, last.in1), last.a1, last.ret),
                             last.pre, last.in1)
           ELSE EqualsMatrix(ColumnPutBack(CopyOf(heap, last.in1), last.a1, last.ret),
                             last.pre, last.in1)

(* row 1 of a matrix whose rows differ is extracted *)
C21_Witness ==
    /\ last.op = "extract_row" /\ last.a1 = 1
    /\ last.ret # NULL /\ last.in1 # NULL
    /\ heap[last.in1].rows = 2
    /\ Elem(heap, last.in1, 0, 0) = Rat(1)
    /\ Elem(heap, last.in1, 1, 0) = Rat(-1)
    /\ Elem(heap, last.ret, 0, 0) = Rat(-1)
    /\ EqualsMatrix(RowPutBack(CopyOf(heap, last.in1), 1, last.ret), heap, last.in1)

(* ============================== C22 ==================================== *)
(* the run t has left every block of matrix m as it is in the heap *)
UnchangedIn(t, m) ==
    /\ t.fault = "none"
    /\ \A a \in BlocksOf(heap, m) : a \in DOMAIN t.heap /\ t.heap[a] = heap[a]

(* m->data[r][c] = m->data[r][c] + 1, made on the heap *)
Bump(m, r, c) ==
    StoreElem(NewSt(heap, 0, "trap", 0), m, r, c, RAdd(Elem(heap, m, r, c), One))

(* no write to a cell of matrix w changes matrix m *)
WritesLeave(w, m) ==
    \A r \in 0..(heap[w].rows - 1), c \in 0..(heap[w].cols - 1) :
        UnchangedIn(Bump(w, r, c), m)

(* C22: with no allocation failing, extract_row(m, i) returns a freshly    *)
(* allocated 1 x m.cols matrix and extract_column(m, j) a freshly          *)
(* allocated m.rows x 1 matrix holding copies of the values: a later write *)
(* to the vector, or its release, does not change m, and a later write to  *)
(* m does not change the vector.                                           *)
C22_ExtractedVectorIsACopy ==
    (last.op \in {"extract_row", "extract_column"} /\ last.in1 # NULL
        /\ ~MallocFailed) =>
        /\ last.ret # NULL /\ last.fault = "none"
        /\ WellFormed(heap, last.ret)
        /\ BlocksOf(heap, last.ret) \cap DOMAIN last.pre = {}
        /\ IF last.op = "extract_row"
           THEN /\ heap[last.ret].rows = 1
                /\ heap[last.ret].cols = last.pre[last.in1].cols
                /\ \A c \in 0..(last.pre[last.in1].cols - 1) :
                      Elem(heap, last.ret, 0, c) = Elem(last.pre, last.in1, last.a1, c)
           ELSE /\ heap[last.ret].rows = last.pre[last.in1].rows
                /\ heap[last.ret].cols = 1
                /\ \A r \in 0..(last.pre[last.in1].rows - 1) :
                      Elem(heap, last.ret, r, 0) = Elem(last.pre, last.in1, r, last.a1)
        /\ UnchangedIn(free_matrix(NewSt(heap, 0, "trap", 0), last.ret), last.in1)
        /\ WritesLeave(last.ret, last.in1)
        /\ WritesLeave(last.in1, last.ret)

(* column 1 of a 2x2 matrix comes back as a 2x1 matrix of its own *)
C22_Witness ==
    /\ last.op = "extract_column" /\ last.a1 = 1
    /\ last.ret # NULL /\ last.in1 # NULL
    /\ heap[last.in1].rows = 2 /\ heap[last.in1].cols = 2
    /\ Elem(heap, last.in1, 0, 0) = Rat(-1)
    /\ Elem(heap, last.in1, 0, 1) = Rat(1)
    /\ heap[last.ret].rows = 2 /\ heap[last.ret].cols = 1
    /\ Elem(heap, last.ret, 0, 0) = Rat(1)
    /\ Elem(heap, last.ret, 1, 0) = Rat(0)
    /\ BlocksOf(heap, last.ret) \cap BlocksOf(heap, last.in1) = {}

(* ============================== C23 ==================================== *)
(* C23: free_matrix(NULL) returns at once: it frees nothing, dereferences  *)
(* nothing and leaves the heap as it was; so releasing a handle, resetting *)
(* it to NULL and releasing it again changes nothing and is safe.          *)
C23_FreeNullIsNoOp ==
    (last.op = "free_matrix" /\ last.in1 = NULL) =>
        /\ heap = last.pre
        /\ last.log = <<>>
        /\ last.fault = "none" /\ ~last.halted
        /\ last.nmalloc = 0

(* the handle A, NULL at the start and again after each release, is released *)
C23_Witness ==
    /\ last.op = "free_matrix" /\ last.in1 = NULL
    /\ slot["A"] = NULL /\ phase = "setup"
    /\ Frees(last.log) = {}

(* ============================== C25 ==================================== *)
(* x is the maximum of the vector m of heap h *)
IsMaxOf(x, h, m) ==
    /\ \A i \in 0..(VecLen(h, m) - 1) : RLe(VecAt(h, m, i), x)
    /\ \E i \in 0..(VecLen(h, m) - 1) : VecAt(h, m, i) = x

(* max_val after the first loop of apply_softmax_to_vector(m) on heap h *)
MaxValOf(h, m) ==
    SoftmaxMax(NewSt(h, 0, "trap", 0), m, 0, VecLen(h, m),
               LoadElem(NewSt(h, 0, "trap", 0), m, 0, 0))

(* the vector m of heap h as the array handed to softmax *)
AsArray(h, m) == [i \in 0..(VecLen(h, m) - 1) |-> VecAt(h, m, i)]

(* C25: in apply_softmax_to_vector, and in the array version softmax,      *)
(* max_val after the first loop is the maximum of all N elements of the    *)
(* input: it is >= every element and equal to at least one, for every      *)
(* N >= 1 and for both the 1xN and the Nx1 orientation.                    *)
C25_MaxValIsTheMaximum ==
    (last.op = "apply_softmax_to_vector" /\ last.in1 # NULL
        /\ IsVector(last.pre, last.in1)) =>
        /\ IsMaxOf(MaxValOf(last.pre, last.in1), last.pre, last.in1)
        /\ IsMaxOf(softmax_max_val(AsArray(last.pre, last.in1),
                                   VecLen(last.pre, last.in1)),
                   last.pre, last.in1)

(* the column vector (-1, 1): the maximum is its last element *)
C25_Witness ==
    /\ last.op = "apply_softmax_to_vector" /\ last.in1 # NULL
    /\ heap[last.in1].rows = 2 /\ heap[last.in1].cols = 1
    /\ Elem(heap, last.in1, 0, 0) = Rat(-1)
    /\ Elem(heap, last.in1, 1, 0) = Rat(1)
    /\ MaxValOf(heap, last.in1) = Rat(1)

(* ============================== C26 ==================================== *)
(* the position in the log of the release of block a *)
FreePos(log, a) == CHOOSE k \in DOMAIN log : log[k] = <<"free", a>>

(* C26: free_matrix, given a matrix produced by create_matrix, releases in *)
(* the reverse order of allocation: every row buffer before the            *)
(* row-pointer array, the array before the structure, each block once;     *)
(* it reads no pointer out of a block it has already released and          *)
(* dereferences no NULL row-pointer array.                                 *)
C26_FreeInReverseOrder ==
    (last.op = "free_matrix" /\ last.in1 # NULL /\ WellFormed(last.pre, last.in1)) =>
        /\ last.fault = "none" /\ ~last.halted
        /\ last.pre[last.in1].data # NULL
        /\ Mallocs(last.log) = {}
        /\ Frees(last.log) = BlocksOf(last.pre, last.in1)
        /\ Len(last.log) = Cardinality(BlocksOf(last.pre, last.in1))
        /\ FreePos(last.log, last.pre[last.in1].data) < FreePos(last.log, last.in1)
        /\ \A i \in 0..(last.pre[last.in1].rows - 1) :
              FreePos(last.log, last.pre[last.pre[last.in1].data].p[i])
                  < FreePos(last.log, last.pre[last.in1].data)
        /\ DOMAIN heap = DOMAIN last.pre \ BlocksOf(last.pre, last.in1)

(* a matrix of MaxDim rows is released: MaxDim + 2 blocks, the structure last *)
C26_Witness ==
    /\ last.op = "free_matrix" /\ last.in1 # NULL
    /\ last.pre[last.in1].rows = MaxDim
    /\ Len(last.log) = MaxDim + 2
    /\ last.log[MaxDim + 2] = <<"free", last.in1>>
    /\ last.log[MaxDim + 1] = <<"free", last.pre[last.in1].data>>

(* ============================== C29 ==================================== *)
(* C29: with no allocation failing, apply_softmax_batch normalises along   *)
(* rows exactly when axis = 1; for every other axis value (0, 2, a         *)
(* negative one) it normalises along columns; no axis value is refused.    *)
C29_OnlyAxisOneIsRows ==
    (last.op = "apply_softmax_batch" /\ last.in1 # NULL /\ ~MallocFailed) =>
        /\ last.ret # NULL /\ last.fault = "none"
        /\ WellFormed(heap, last.ret)
        /\ heap[last.ret].rows = last.pre[last.in1].rows
        /\ heap[last.ret].cols = last.pre[last.in1].cols
        /\ IF last.a1 = 1
           THEN \A i \in 0..(last.pre[last.in1].rows - 1),
                   j \in 0..(last.pre[last.in1].cols - 1) :
                   Elem(heap, last.ret, i, j)
                       = VecOut(RowSoftmax(last.pre, last.in1, i), j)
           ELSE \A i \in 0..(last.pre[last.in1].rows - 1),
                   j \in 0..(last.pre[last.in1].cols - 1) :
                   Elem(heap, last.ret, i, j)
                       = VecOut(ColumnSoftmax(last.pre, last.in1, j), i)

(* axis 2 on a 1x2 matrix: each column is a vector of one element *)
C29_Witness ==
    /\ last.op = "apply_softmax_batch" /\ last.a1 = 2
    /\ last.ret # NULL /\ last.in1 # NULL
    /\ heap[last.in1].rows = 1 /\ heap[last.in1].cols = 2
    /\ Elem(heap, last.ret, 0, 0) = Rat(1)
    /\ Elem(heap, last.ret, 0, 1) = Rat(1)

(* ============================== C30 ==================================== *)
(* the source vector fits the destination's row (column) *)
InsertFits ==
    \/ /\ last.op = "insert_row"
       /\ last.pre[last.in2].cols = last.pre[last.in1].cols
    \/ /\ last.op = "insert_column"
       /\ last.pre[last.in2].rows = last.pre[last.in1].rows

(* the row buffers of matrix m in heap h *)
RowBuffers(h, m) == {h[h[m].data].p[i] : i \in 0..(h[m].rows - 1)}

(* C30: insert_row(dest, i, row) with matching widths changes only row i   *)
(* of dest: every dest[r][c] with r != i, the dimensions of dest and the   *)
(* source row are unchanged, and afterwards dest[i][c] = row[0][c] for     *)
(* every c; symmetrically insert_column(dest, j, col) with matching        *)
(* heights changes only column j, to col[r][0].                            *)
C30_InsertChangesOneLine ==
    (last.op \in {"insert_row", "insert_column"}
        /\ last.in1 # NULL /\ last.in2 # NULL /\ InsertFits) =>
        /\ last.fault = "none" /\ last.log = <<>>
        /\ DOMAIN heap = DOMAIN last.pre
        /\ \A a \in DOMAIN heap \ RowBuffers(last.pre, last.in1) : heap[a] = last.pre[a]
        /\ \A r \in 0..(last.pre[last.in1].rows - 1),
              c \in 0..(last.pre[last.in1].cols - 1) :
              Elem(heap, last.in1, r, c) =
                  IF last.op = "insert_row"
                  THEN (IF r = last.a1 THEN Elem(last.pre, last.in2, 0, c)
                        ELSE Elem(last.pre, last.in1, r, c))
                  ELSE (IF c = last.a1 THEN Elem(last.pre, last.in2, r, 0)
                        ELSE Elem(last.pre, last.in1, r, c))

(* the 1x1 row (1) goes into row 1 of a 2x1 matrix of zeros *)
C30_Witness ==
    /\ last.op = "insert_row" /\ last.a1 = 1
    /\ last.in1 # NULL /\ last.in2 # NULL
    /\ heap[last.in1].rows = 2 /\ heap[last.in1].cols = 1
    /\ heap[last.in2].rows = 1 /\ heap[last.in2].cols = 1
    /\ Elem(heap, last.in2, 0, 0) = Rat(1)
    /\ Elem(heap, last.in1, 0, 0) = Rat(0)
    /\ Elem(heap, last.in1, 1, 0) = Rat(1)

(* ============================== C27 ==================================== *)
(* every handle test_matrix_operations is about to release is NULL or a    *)
(* matrix still allocated: never one without a value, never one released   *)
HandlesReleasedAreLive ==
    pc \in FreeSites =>
        /\ HandleAt(pc) # UNINIT
        /\ HandleAt(pc) = NULL \/ HandleAt(pc) \in DOMAIN heap

(* once test_matrix_operations has returned nothing it allocated is left *)
NothingLeftAllocated == pc \in {"FINAL", "exit"} => DOMAIN heap = {}

(* C27: test_matrix_operations frees every matrix it allocated exactly     *)
(* once on every exit path (normal completion, the early returns, both     *)
(* GOTO cleanup paths) and never passes an uninitialised or already-freed  *)
(* handle to free_matrix.                                                  *)
C27_EveryMatrixFreedOnce == HandlesReleasedAreLive /\ NothingLeftAllocated

(* ============================== C28 ==================================== *)
(* C28: main_test_runner returns 0 if all tests pass and a non-zero value  *)
(* if any suite reports a failure: for every combination of the four       *)
(* suites' return values, total_failures is 0 only when every suite        *)
(* returned 0.                                                             *)
C28_ZeroOnlyWhenAllPass ==
    pc = "exit" =>
        (total_failures = 0 <=> \A k \in DOMAIN reported : reported[k] = 0)

(* ============================== C24 ==================================== *)
(* the outermost call has returned, or the program has left defined        *)
(* behaviour through a NULL that a failed allocation produced              *)
Ended == Top.pc \in {"returned", "fault"}

(* C24: every engine operation terminates for every matrix with finite     *)
(* positive dimensions: each loop counter goes up to its fixed bound and   *)
(* every call made returns, so the outermost call comes to its end.        *)
C24_EveryCallTerminates == <>Ended

(* apply_softmax_batch on the largest matrix has returned its result *)
C24_Witness ==
    /\ Len(stack) = 1
    /\ Top.fn = "apply_softmax_batch" /\ Top.pc = "returned" /\ Top.r = "ptr"
    /\ Top.rows = MaxDim /\ Top.cols = MaxDim /\ Top.arg = 1
    /\ Top.i = MaxDim
====
